---- MODULE Spec2Model ----
(***************************************************************************)
(* A state-machine model of the geofencing engine (Project-GeoFence):     *)
(* the request governor (LoadBalancer), the zone manager, the connection   *)
(* pool, the event detector and its cache, the webhook dispatcher, the     *)
(* bulk location processor and the orchestrator.                           *)
(*                                                                         *)
(* Every component is modelled against the interface it consumes.  One     *)
(* specification per component: its actions leave the variables of the     *)
(* other components unchanged.                                             *)
(***************************************************************************)
EXTENDS Integers, Sequences, FiniteSets, TLC

NULL == "null"

Max2(a, b) == IF a >= b THEN a ELSE b

Min2(a, b) == IF a <= b THEN a ELSE b

RECURSIVE SumSeq(_)
SumSeq(s) == IF s = <<>> THEN 0 ELSE Head(s) + SumSeq(Tail(s))

RECURSIVE FilterSeq(_, _)
\* Array.prototype.filter with the predicate "element \in keep"
FilterSeq(s, keep) ==
    IF s = <<>> THEN <<>>
    ELSE IF Head(s) \in keep THEN <<Head(s)>> \o FilterSeq(Tail(s), keep)
    ELSE FilterSeq(Tail(s), keep)

SeqToSet(s) == { s[i] : i \in 1..Len(s) }

(***************************************************************************)
(*                    REQUEST GOVERNOR  (LoadBalancer)                     *)
(***************************************************************************)
VARIABLES
    requestQueue,     \* LoadBalancer.requestQueue: records [id, priority, retryCount]
    requestWindow,    \* LoadBalancer.requestWindow: timestamps
    lbNow,            \* Date.now(), in ticks
    lbRunning,        \* requests whose operation() is in flight
    lbBackoff,        \* requests waiting in the retry setTimeout
    lbSettled,        \* id -> "none" | "pending" | "resolved" | "rejected"
    lbStarts,         \* history: start ticks of the operations started in the current window
    lbNextId          \* next request id (generateRequestId)

govVars == <<requestQueue, requestWindow, lbNow, lbRunning, lbBackoff,
             lbSettled, lbStarts, lbNextId>>

\* Model bounds of the governor
MaxRequests == 2
MaxTime == 2
MaxPriority == 1

\* LoadBalancerConfig, scaled to ticks: the window is WindowSizeTicks ticks long
\* and admits MaxRequestsPerWindow requests.
WindowSizeTicks == 2
MaxRequestsPerWindow == 1
retryAttempts == 3

ReqIds == 1..MaxRequests

RECURSIVE InsertByPriority(_, _)
\* place x behind every element whose priority is >= x.priority
InsertByPriority(x, s) ==
    IF s = <<>> THEN <<x>>
    ELSE IF Head(s).priority >= x.priority
         THEN <<Head(s)>> \o InsertByPriority(x, Tail(s))
         ELSE <<x>> \o s

RECURSIVE SortByPriority(_)
\* requestQueue.sort((a, b) => b.priority - a.priority): a stable sort
SortByPriority(s) ==
    IF s = <<>> THEN <<>>
    ELSE LET n == Len(s)
         IN InsertByPriority(s[n], SortByPriority(SubSeq(s, 1, n - 1)))

\* the filter of canProcessRequest and cleanupRequestWindow: time > now - windowSizeMs
WindowFilter(w, now) == FilterSeq(w, { t \in 0..MaxTime : t > now - WindowSizeTicks })

canProcessRequest == Len(WindowFilter(requestWindow, lbNow)) < MaxRequestsPerWindow

\* recordResponseTime ends with recordRequest(): requestWindow.push(Date.now())
recordRequest(w, now) == Append(w, now)

InitGovernor ==
    /\ requestQueue = <<>>
    /\ requestWindow = <<>>
    /\ lbNow = 0
    /\ lbRunning = {}
    /\ lbBackoff = {}
    /\ lbSettled = [i \in ReqIds |-> "none"]
    /\ lbStarts = <<>>
    /\ lbNextId = 1

\* execute(operation, priority)
Execute(p) ==
    /\ lbNextId <= MaxRequests
    /\ requestQueue' = SortByPriority(
           Append(requestQueue, [id |-> lbNextId, priority |-> p, retryCount |-> 0]))
    /\ lbSettled' = [lbSettled EXCEPT ![lbNextId] = "pending"]
    /\ lbNextId' = lbNextId + 1
    /\ UNCHANGED <<requestWindow, lbNow, lbRunning, lbBackoff, lbStarts>>

\* handleRequestFailure, after recordResponseTime: retry timer or reject
FailureBackoff(req) ==
    IF req.retryCount < retryAttempts
    THEN lbBackoff \cup {[req EXCEPT !.retryCount = req.retryCount + 1]}
    ELSE lbBackoff

FailureSettled(req) ==
    IF req.retryCount < retryAttempts
    THEN lbSettled
    ELSE [lbSettled EXCEPT ![req.id] = "rejected"]

\* processQueue, one iteration that passes the rate check: shift a request and
\* call processRequest without awaiting it.  getBestConnection either finds a
\* connection (the operation starts) or throws (handleRequestFailure).
ProcessQueueDispatch(avail) ==
    /\ requestQueue # <<>>
    /\ canProcessRequest
    /\ LET req == Head(requestQueue)
           w == WindowFilter(requestWindow, lbNow)
       IN /\ requestQueue' = Tail(requestQueue)
          /\ IF avail
             THEN /\ lbRunning' = lbRunning \cup {req}
                  /\ lbStarts' = Append(lbStarts, lbNow)
                  /\ requestWindow' = w
                  /\ UNCHANGED <<lbBackoff, lbSettled>>
             ELSE /\ requestWindow' = recordRequest(w, lbNow)
                  /\ lbBackoff' = FailureBackoff(req)
                  /\ lbSettled' = FailureSettled(req)
                  /\ UNCHANGED <<lbRunning, lbStarts>>
    /\ UNCHANGED <<lbNow, lbNextId>>

\* processQueue, one iteration that fails the rate check: canProcessRequest has
\* filtered the window, the loop sleeps windowSizeMs / maxRequestsPerSecond.
ProcessQueueRateLimited ==
    /\ requestQueue # <<>>
    /\ ~canProcessRequest
    /\ requestWindow' = WindowFilter(requestWindow, lbNow)
    /\ UNCHANGED <<requestQueue, lbNow, lbRunning, lbBackoff, lbSettled, lbStarts, lbNextId>>

\* processRequest after the operation resolved: recordResponseTime, resolve
OperationResolved(req) ==
    /\ req \in lbRunning
    /\ lbRunning' = lbRunning \ {req}
    /\ requestWindow' = recordRequest(requestWindow, lbNow)
    /\ lbSettled' = [lbSettled EXCEPT ![req.id] = "resolved"]
    /\ UNCHANGED <<requestQueue, lbNow, lbBackoff, lbStarts, lbNextId>>

\* processRequest after the operation rejected: handleRequestFailure
OperationRejected(req) ==
    /\ req \in lbRunning
    /\ lbRunning' = lbRunning \ {req}
    /\ requestWindow' = recordRequest(requestWindow, lbNow)
    /\ lbBackoff' = FailureBackoff(req)
    /\ lbSettled' = FailureSettled(req)
    /\ UNCHANGED <<requestQueue, lbNow, lbStarts, lbNextId>>

\* the retry setTimeout of handleRequestFailure fires: unshift the request
RetryTimerFires(req) ==
    /\ req \in lbBackoff
    /\ lbBackoff' = lbBackoff \ {req}
    /\ requestQueue' = <<req>> \o requestQueue
    /\ UNCHANGED <<requestWindow, lbNow, lbRunning, lbSettled, lbStarts, lbNextId>>

\* the setInterval of the constructor: cleanupRequestWindow
cleanupRequestWindow ==
    /\ requestWindow' = WindowFilter(requestWindow, lbNow)
    /\ requestWindow' # requestWindow
    /\ UNCHANGED <<requestQueue, lbNow, lbRunning, lbBackoff, lbSettled, lbStarts, lbNextId>>

\* the clock advances
LbTick ==
    /\ lbNow < MaxTime
    /\ lbNow' = lbNow + 1
    /\ lbStarts' = WindowFilter(lbStarts, lbNow + 1)
    /\ UNCHANGED <<requestQueue, requestWindow, lbRunning, lbBackoff, lbSettled, lbNextId>>


\* clearQueue(), also called by shutdown(): every queued request is rejected
\* with 'Queue cleared'; requests in flight or in a retry timer are left alone
LbClearQueue ==
    /\ requestQueue # <<>>
    /\ lbSettled' = [i \in ReqIds |->
          IF \E k \in 1..Len(requestQueue) : requestQueue[k].id = i
          THEN "rejected" ELSE lbSettled[i]]
    /\ requestQueue' = <<>>
    /\ UNCHANGED <<requestWindow, lbNow, lbRunning, lbBackoff, lbStarts, lbNextId>>

\* processRequest after the operation rejected, when handleRequestFailure
\* itself throws: after recordResponseTime it awaits
\* connectionManager.getConnection(), and its error leaves processRequest
\* before the retry logic (processQueue logs it).  The ConnectionManager of
\* this repository defines no getConnection, so handed that class the call
\* always throws
HandleRequestFailureThrows(req) ==
    /\ req \in lbRunning
    /\ lbRunning' = lbRunning \ {req}
    /\ requestWindow' = recordRequest(requestWindow, lbNow)
    /\ UNCHANGED <<requestQueue, lbNow, lbBackoff, lbSettled, lbStarts, lbNextId>>

\* the ids of the requests the governor still holds: queued, in flight, or
\* waiting in a retry timer
HeldRequests ==
    { requestQueue[k].id : k \in 1..Len(requestQueue) }
    \cup { req.id : req \in lbRunning } \cup { req.id : req \in lbBackoff }


\* ---------------------------------------------------------------------
\* LoadBalancer.shutdown and what keeps running after it
\* (src/packages/backend/src/config/geofencing.ts 569-596, 637-660, 914-935)
\* ---------------------------------------------------------------------
VARIABLE
    lbShutdown    \* shutdown() has completed

govStopVars == <<lbShutdown>>

InitGovStop == lbShutdown = FALSE

\* shutdown(): clears the health-check interval, rejects the queued requests
\* (clearQueue), resets the statistics and emits 'shutdown'.  It sets no flag
\* that processQueue reads, and the window-cleanup interval and the retry
\* timers are not cleared
LbShutdown ==
    /\ ~lbShutdown
    /\ lbShutdown' = TRUE
    /\ IF requestQueue # <<>> THEN LbClearQueue ELSE UNCHANGED govVars

\* ---------------------------------------------------------------------
\* LoadBalancer: connection health scores
\* (src/packages/backend/src/config/geofencing.ts 556, 743-805)
\* ---------------------------------------------------------------------
VARIABLES
    connectionHealthScores,   \* LoadBalancer.connectionHealthScores: a Map, a function on the ids it holds
    lastHealth                \* the last call of updateConnectionHealth: connection, outcome, score before

healthVars == <<connectionHealthScores, lastHealth>>

\* the connections that are scored
HealthConns == {"primary", "replica-1"}

\* response times in ms, one of each class of updateConnectionHealth
HealthResponseTimes == {50, 300, 700}

NoHealthUpdate == [connection |-> "", success |-> TRUE, before |-> 0]

InitHealth ==
    /\ connectionHealthScores = [c \in {} |-> 0]
    /\ lastHealth = NoHealthUpdate

\* the score a connection has: the entry of the Map, 50 while it has none
storedScore(c) ==
    IF c \in DOMAIN connectionHealthScores THEN connectionHealthScores[c] ELSE 50

\* connectionHealthScores.get(id) || 50: a missing entry and an entry of 0 both read as 50
currentScore(c) ==
    IF c \in DOMAIN connectionHealthScores /\ connectionHealthScores[c] # 0
    THEN connectionHealthScores[c] ELSE 50

healthAdjustment(success, responseTime) ==
    IF success
    THEN IF responseTime < 100 THEN 5 ELSE IF responseTime < 500 THEN 2 ELSE 1
    ELSE -10

setScore(c, score) ==
    [d \in DOMAIN connectionHealthScores \cup {c} |->
        IF d = c THEN score ELSE connectionHealthScores[d]]

\* updateConnectionHealth(connectionId, success, responseTime)
updateConnectionHealth(c, success, responseTime) ==
    /\ connectionHealthScores' =
           setScore(c, Max2(0, Min2(100, currentScore(c) + healthAdjustment(success, responseTime))))
    /\ lastHealth' = [connection |-> c, success |-> success, before |-> storedScore(c)]

\* performHealthCheck: healthCheck() resolves with a map in which the
\* connections of unhealthy are false; each of them loses 20
performHealthCheck(unhealthy) ==
    /\ connectionHealthScores' =
           [d \in DOMAIN connectionHealthScores \cup unhealthy |->
               IF d \in unhealthy THEN Max2(0, currentScore(d) - 20)
               ELSE connectionHealthScores[d]]
    /\ lastHealth' = NoHealthUpdate
(***************************************************************************)
(*                  CONNECTION POOL  (ConnectionManager)                   *)
(***************************************************************************)
VARIABLES
    primaryConnected,   \* pool.primary.isServiceConnected()
    replicaConnected,   \* pool.replicas[i].isServiceConnected()
    wrPc,               \* executeWrite: "idle" | "attempt" | "delay" | "done" | "failed"
    wrAttempt,          \* executeWrite: the loop variable attempt
    wrExecutedOn,       \* history: handles the operation was executed on in this call
    wrDownAttempts,     \* history: attempts of this call that found the primary down
    wrError             \* the error the call threw, or NULL

poolVars == <<primaryConnected, replicaConnected, wrPc, wrAttempt, wrExecutedOn,
              wrDownAttempts, wrError>>

\* Model bound: the number of replicas (TILE38_REPLICA_COUNT)
NumReplicas == 2

MAX_CONNECTION_ATTEMPTS == 3

Replicas == 1..NumReplicas

PrimaryHandle == <<"primary", 0>>

ReplicaHandle(i) == <<"replica", i>>

NoHandle == <<"none", 0>>

InitPool ==
    /\ primaryConnected = TRUE
    /\ replicaConnected = [i \in Replicas |-> TRUE]
    /\ wrPc = "idle"
    /\ wrAttempt = 0
    /\ wrExecutedOn = {}
    /\ wrDownAttempts = 0
    /\ wrError = NULL

\* a getWriteConnection that fails over to a connected replica
getWriteConnectionFailover ==
    IF primaryConnected THEN PrimaryHandle
    ELSE IF \E i \in Replicas : replicaConnected[i]
         THEN ReplicaHandle(CHOOSE i \in Replicas : replicaConnected[i])
         ELSE NoHandle

\* getWriteConnection: the primary, or NoHandle when it throws Tile38ConnectionError
getWriteConnection ==
    IF primaryConnected THEN PrimaryHandle ELSE NoHandle

\* the 'error'/'close' events of a connection's client, and its reconnection
PrimaryConnectionChanges ==
    /\ primaryConnected' = ~primaryConnected
    /\ UNCHANGED <<replicaConnected, wrPc, wrAttempt, wrExecutedOn, wrDownAttempts, wrError>>

ReplicaConnectionChanges(i) ==
    /\ replicaConnected' = [replicaConnected EXCEPT ![i] = ~@]
    /\ UNCHANGED <<primaryConnected, wrPc, wrAttempt, wrExecutedOn, wrDownAttempts, wrError>>

\* executeWrite is called
ExecuteWriteCall ==
    /\ wrPc \in {"idle", "done", "failed"}
    /\ wrPc' = "attempt"
    /\ wrAttempt' = 0
    /\ wrExecutedOn' = {}
    /\ wrDownAttempts' = 0
    /\ wrError' = NULL
    /\ UNCHANGED <<primaryConnected, replicaConnected>>

\* the catch block of the retry loop
WriteAttemptFailed ==
    IF wrAttempt < MAX_CONNECTION_ATTEMPTS - 1
    THEN /\ wrPc' = "delay"
         /\ wrError' = NULL
    ELSE /\ wrPc' = "failed"
         /\ wrError' = "Tile38ConnectionError"

\* one pass of the retry loop of executeWrite: getWriteConnection, then the
\* operation on the handle; the operation resolves (opOk) or rejects
ExecuteWriteAttempt(opOk) ==
    /\ wrPc = "attempt"
    /\ LET connection == getWriteConnection
       IN IF connection = NoHandle
          THEN /\ wrDownAttempts' = wrDownAttempts + 1
               /\ WriteAttemptFailed
               /\ UNCHANGED wrExecutedOn
          ELSE /\ wrExecutedOn' = wrExecutedOn \cup {connection}
               /\ UNCHANGED wrDownAttempts
               /\ IF opOk
                  THEN /\ wrPc' = "done"
                       /\ wrError' = NULL
                  ELSE WriteAttemptFailed
    /\ UNCHANGED <<primaryConnected, replicaConnected, wrAttempt>>

\* await this.delay(1000 * (attempt + 1)) has elapsed
ExecuteWriteDelayElapsed ==
    /\ wrPc = "delay"
    /\ wrPc' = "attempt"
    /\ wrAttempt' = wrAttempt + 1
    /\ UNCHANGED <<primaryConnected, replicaConnected, wrExecutedOn, wrDownAttempts, wrError>>


(***************************************************************************)
(*   The errors of the operations that executeWrite runs                   *)
(***************************************************************************)
VARIABLES
    wrOpError     \* the error the last attempt of executeWrite ended with, or NULL

poolErrorVars == <<wrOpError>>

\* what an operation handed to executeWrite throws: the error of the index
\* (Tile38ConnectionError of executeCommand), or the LocationValidationError
\* of validateLocation in setLocation
OperationErrors == {"Tile38ConnectionError", "LocationValidationError"}

InitPoolErrors == wrOpError = NULL

\* executeWrite is called
ExecuteWriteCalled ==
    /\ ExecuteWriteCall
    /\ wrOpError' = NULL

\* one pass of the retry loop whose operation resolves
ExecuteWriteAttemptResolves ==
    /\ ExecuteWriteAttempt(TRUE)
    /\ wrOpError' = IF getWriteConnection = NoHandle THEN "Tile38ConnectionError" ELSE NULL

\* one pass of the retry loop whose operation throws error
ExecuteWriteAttemptThrows(error) ==
    /\ ExecuteWriteAttempt(FALSE)
    /\ wrOpError' = IF getWriteConnection = NoHandle THEN "Tile38ConnectionError" ELSE error

(***************************************************************************)
(*   The read handles of the pool: ConnectionManager.getReadConnection     *)
(***************************************************************************)
VARIABLES
    roundRobinIndex,   \* pool.roundRobinIndex
    readHandle,        \* what the last getReadConnection returned, NoHandle when it threw
    readCalls          \* how many times getReadConnection has been called

poolReadVars == <<roundRobinIndex, readHandle, readCalls>>

MaxReads == 3

InitPoolReads ==
    /\ roundRobinIndex = 0
    /\ readHandle = NoHandle
    /\ readCalls = 0

\* [primary, ...replicas.filter(connected)].filter(connected), in that order
RECURSIVE ConnectedReplicasFrom(_)
ConnectedReplicasFrom(i) ==
    IF i > NumReplicas THEN <<>>
    ELSE (IF replicaConnected[i] THEN <<ReplicaHandle(i)>> ELSE <<>>) \o ConnectedReplicasFrom(i + 1)

availableConnections ==
    (IF primaryConnected THEN <<PrimaryHandle>> ELSE <<>>) \o ConnectedReplicasFrom(1)

\* getReadConnection without the filters on isServiceConnected
getReadConnectionUnfiltered(index) ==
    LET all == <<PrimaryHandle>> \o [i \in Replicas |-> ReplicaHandle(i)]
    IN all[(index % Len(all)) + 1]

\* getReadConnection: NoHandle when it throws Tile38ConnectionError, otherwise
\* the available connection at roundRobinIndex modulo their number
getReadConnection(index) ==
    IF Len(availableConnections) = 0
    THEN NoHandle
    ELSE availableConnections[(index % Len(availableConnections)) + 1]

\* a caller, executeRead for one, asks for a read handle
GetReadConnectionCalled ==
    /\ readCalls < MaxReads
    /\ readCalls' = readCalls + 1
    /\ readHandle' = getReadConnection(roundRobinIndex)
    /\ roundRobinIndex' = IF getReadConnection(roundRobinIndex) = NoHandle
                          THEN roundRobinIndex
                          ELSE roundRobinIndex + 1
    /\ UNCHANGED poolVars

(***************************************************************************)
(*   ONE CONNECTION  (Tile38Service: connect, the handlers of the client's *)
(*   events, handleReconnection) and the health probe of the pool          *)
(***************************************************************************)
VARIABLES
    isConnected,         \* Tile38Service.isConnected
    connectionRetries,   \* Tile38Service.connectionRetries
    connRetryDelay,      \* Tile38Service.retryDelay, in ms
    handlersSet,         \* setupEventHandlers has run
    connThreads,         \* the calls of connect in progress or over: the first
                         \* opening by initialize, and the calls of handleReconnection
    lastProbe            \* the last health probe since the connection was
                         \* last marked down: "none", "ok", "failed"

connVars == <<isConnected, connectionRetries, connRetryDelay, handlersSet, connThreads, lastProbe>>

\* Tile38Service.maxRetries
connMaxRetries == 5

\* the initial value of Tile38Service.retryDelay, in ms
initialRetryDelay == 1000

\* Model bounds: the calls followed at a time, and the doublings of the delay
\* after which no further reconnection is followed
MaxConnThreads == 2
MaxDoublings == 3

ConnThreads == 1..MaxConnThreads

IdleThread == [pc |-> "idle", kind |-> "none", pings |-> 0, waits |-> <<>>, outcome |-> "none"]

InitConnection ==
    /\ isConnected = FALSE
    /\ connectionRetries = 0
    /\ connRetryDelay = initialRetryDelay
    /\ handlersSet = FALSE
    /\ connThreads = [th \in ConnThreads |->
          IF th = 1 THEN [IdleThread EXCEPT !.pc = "ping", !.kind = "open"] ELSE IdleThread]
    /\ lastProbe = "none"

ThreadActive(th) == connThreads[th].pc \in {"wait", "ping", "backoff"}

\* the client emits 'error' or 'close': the handler clears isConnected and
\* calls handleReconnection, which waits retryDelay and calls connect when
\* connectionRetries < maxRetries
ClientEvent(th) ==
    /\ handlersSet
    /\ ~ThreadActive(th)
    /\ connRetryDelay < initialRetryDelay * 2^MaxDoublings
    /\ isConnected' = FALSE
    /\ lastProbe' = "none"
    /\ connThreads' = [connThreads EXCEPT ![th] =
          IF connectionRetries < connMaxRetries
          THEN [IdleThread EXCEPT !.pc = "wait", !.kind = "reopen"]
          ELSE @]
    /\ UNCHANGED <<connectionRetries, connRetryDelay, handlersSet>>

\* handleReconnection: delay(retryDelay) is over, connect is called
ReconnectWaitElapsed(th) ==
    /\ connThreads[th].pc = "wait"
    /\ connThreads' = [connThreads EXCEPT ![th].pc = "ping"]
    /\ UNCHANGED <<isConnected, connectionRetries, connRetryDelay, handlersSet, lastProbe>>

\* connect: the ping of the new client is answered (ok) or fails.  On
\* success initialize goes on to setupEventHandlers; when the retries are
\* used up connect throws, and handleReconnection only logs that error
PingSettles(th, ok) ==
    /\ connThreads[th].pc = "ping"
    /\ LET thread == [connThreads[th] EXCEPT !.pings = @ + 1]
       IN IF ok
          THEN /\ isConnected' = TRUE
               /\ connectionRetries' = 0
               /\ handlersSet' = (handlersSet \/ thread.kind = "open")
               /\ connThreads' = [connThreads EXCEPT ![th] =
                     [thread EXCEPT !.pc = "done", !.outcome = "connected"]]
               /\ UNCHANGED lastProbe
          ELSE /\ isConnected' = FALSE
               /\ connectionRetries' = connectionRetries + 1
               /\ lastProbe' = "none"
               /\ connThreads' = [connThreads EXCEPT ![th] =
                     IF connectionRetries + 1 < connMaxRetries
                     THEN [thread EXCEPT !.pc = "backoff",
                                         !.waits = Append(@, connRetryDelay)]
                     ELSE [thread EXCEPT !.pc = "done",
                              !.outcome = IF thread.kind = "open" THEN "thrown" ELSE "logged"]]
               /\ UNCHANGED handlersSet
    /\ UNCHANGED connRetryDelay

\* connect: the delay before the retry is over, retryDelay is doubled and
\* connect is called again
BackoffElapsed(th) ==
    /\ connThreads[th].pc = "backoff"
    /\ connRetryDelay' = connRetryDelay * 2
    /\ connThreads' = [connThreads EXCEPT ![th].pc = "ping"]
    /\ UNCHANGED <<isConnected, connectionRetries, handlersSet, lastProbe>>

\* performHealthChecks: getHealthStatus pings the server, and the result is
\* emitted as 'health-check'
HealthProbe(ok) ==
    /\ handlersSet
    /\ lastProbe' = IF ok THEN "ok" ELSE "failed"
    /\ lastProbe' # lastProbe
    /\ UNCHANGED <<isConnected, connectionRetries, connRetryDelay, handlersSet, connThreads>>
(***************************************************************************)
(*        GEOMETRY  (GeospatialValidator)  and  ZONE MANAGEMENT            *)
(*                                                                         *)
(* Coordinates are integers: one unit is one step of a grid of degrees     *)
(* fine enough that every polygon of the model has a valid area.           *)
(***************************************************************************)
Coord(lat, lon) == [latitude |-> lat, longitude |-> lon]

\* a closed ring of four corners (the fifth coordinate repeats the first, as
\* validateZonePolygon leaves it)
Rectangle(minLat, minLon, maxLat, maxLon) ==
    << Coord(minLat, minLon), Coord(minLat, maxLon), Coord(maxLat, maxLon),
       Coord(maxLat, minLon), Coord(minLat, minLon) >>

\* orientation of the ordered triplet: 0 collinear, 1 clockwise, 2 counterclockwise
orientation(p, q, r) ==
    LET val == (q.latitude - p.latitude) * (r.longitude - q.longitude)
               - (q.longitude - p.longitude) * (r.latitude - q.latitude)
    IN IF val = 0 THEN 0 ELSE IF val > 0 THEN 1 ELSE 2

onSegment(p, q, r) ==
    /\ q.longitude <= Max2(p.longitude, r.longitude)
    /\ q.longitude >= Min2(p.longitude, r.longitude)
    /\ q.latitude <= Max2(p.latitude, r.latitude)
    /\ q.latitude >= Min2(p.latitude, r.latitude)

linesIntersect(p1, q1, p2, q2) ==
    LET o1 == orientation(p1, q1, p2)
        o2 == orientation(p1, q1, q2)
        o3 == orientation(p2, q2, p1)
        o4 == orientation(p2, q2, q1)
    IN \/ (o1 # o2 /\ o3 # o4)
       \/ (o1 = 0 /\ onSegment(p1, p2, q1))
       \/ (o2 = 0 /\ onSegment(p1, q2, q1))
       \/ (o3 = 0 /\ onSegment(p2, p1, q2))
       \/ (o4 = 0 /\ onSegment(p2, q1, q2))

\* the edge from polygon[j] to polygon[i] is crossed by the ray from point:
\* point.longitude < (xj - xi) * (point.latitude - yi) / (yj - yi) + xi,
\* with the division cleared (yj # yi where the first conjunct holds)
RayCrosses(point, pi, pj) ==
    /\ (pi.latitude > point.latitude) # (pj.latitude > point.latitude)
    /\ LET d == pj.latitude - pi.latitude
           lhs == (point.longitude - pi.longitude) * d
           rhs == (pj.longitude - pi.longitude) * (point.latitude - pi.latitude)
       IN IF d > 0 THEN lhs < rhs ELSE lhs > rhs

\* ray casting: inside iff an odd number of edges is crossed
isPointInPolygon(point, polygon) ==
    LET n == Len(polygon)
        prev(i) == IF i = 1 THEN n ELSE i - 1
        crossed == { i \in 1..n : RayCrosses(point, polygon[i], polygon[prev(i)]) }
    IN Cardinality(crossed) % 2 = 1

polygonsOverlap(polygon1, polygon2) ==
    \/ \E i \in 1..Len(polygon1) : isPointInPolygon(polygon1[i], polygon2)
    \/ \E i \in 1..Len(polygon2) : isPointInPolygon(polygon2[i], polygon1)
    \/ \E i \in 1..(Len(polygon1) - 1) : \E j \in 1..(Len(polygon2) - 1) :
          linesIntersect(polygon1[i], polygon1[i + 1], polygon2[j], polygon2[j + 1])

calculateBoundingBox(coordinates) ==
    LET lats == { coordinates[i].latitude : i \in 1..Len(coordinates) }
        lons == { coordinates[i].longitude : i \in 1..Len(coordinates) }
    IN [ minLat |-> CHOOSE x \in lats : \A y \in lats : x <= y,
         maxLat |-> CHOOSE x \in lats : \A y \in lats : x >= y,
         minLon |-> CHOOSE x \in lons : \A y \in lons : x <= y,
         maxLon |-> CHOOSE x \in lons : \A y \in lons : x >= y ]

VARIABLES
    zonesIndex,     \* the 'zones' collection of the spatial index: id -> zone
    zoneCache,      \* ZoneManagementService.zoneCache (with cacheTimestamps)
    zoneCall,       \* the createZone / updateZone / deleteZone call of each caller
    nextZoneId      \* the next identifier uuidv4() hands out

zoneVars == <<zonesIndex, zoneCache, zoneCall, nextZoneId>>

\* Model bounds
MaxZones == 2
NumCallers == 2

ZoneIds == 1..MaxZones

Callers == 1..NumCallers

PolyA == Rectangle(0, 0, 4, 4)

PolyB == Rectangle(2, 2, 6, 6)

PolyC == Rectangle(8, 0, 12, 4)

ZonePolys == {PolyA, PolyB, PolyC}

ZoneStatuses == {"active", "inactive"}

NoZone == [id |-> 0, coordinates |-> <<>>, status |-> "none"]

NoCall == [op |-> "none", pc |-> "idle", zone |-> NoZone]

InitZones ==
    /\ zonesIndex = [id \in ZoneIds |-> NoZone]
    /\ zoneCache = [id \in ZoneIds |-> NoZone]
    /\ zoneCall = [c \in Callers |-> NoCall]
    /\ nextZoneId = 1

StoredZones == { zonesIndex[id] : id \in { i \in ZoneIds : zonesIndex[i] # NoZone } }

BoundsRing(bb) == Rectangle(bb.minLat, bb.minLon, bb.maxLat, bb.maxLon)

\* the reply to INTERSECTS zones BOUNDS: the stored objects that meet the box
IntersectsBounds(bb) ==
    { z \in StoredZones : polygonsOverlap(z.coordinates, BoundsRing(bb)) }

\* parseZoneFromTile38 on a search result: the reply carries no fields, so
\* the status is the default ZoneStatus.ACTIVE
parseZoneFromTile38(z) == [z EXCEPT !.status = "active"]

applyZoneFilters(zones, status) == { z \in zones : z.status = status }

\* searchZones({boundingBox, status})
searchZones(bb, status) ==
    applyZoneFilters({ parseZoneFromTile38(z) : z \in IntersectsBounds(bb) }, status)

\* checkZoneOverlaps: TRUE when it throws ZoneValidationError
checkZoneOverlaps(zone, excludeZoneId) ==
    \E existingZone \in searchZones(calculateBoundingBox(zone.coordinates), "active") :
        /\ existingZone.id # excludeZoneId
        /\ polygonsOverlap(zone.coordinates, existingZone.coordinates)

\* getZone: the cache first, then GET zones id WITHFIELDS; NoZone for null
getZone(id) == IF zoneCache[id] # NoZone THEN zoneCache[id] ELSE zonesIndex[id]

\* createZone up to the end of checkZoneOverlaps: the zone is built and
\* validated, the overlap search is answered from the index as it is now
CreateZoneCheck(c, coordinates) ==
    /\ zoneCall[c].op = "none"
    /\ nextZoneId <= MaxZones
    /\ LET zone == [id |-> nextZoneId, coordinates |-> coordinates, status |-> "active"]
       IN /\ nextZoneId' = nextZoneId + 1
          /\ zoneCall' = [zoneCall EXCEPT ![c] =
                IF checkZoneOverlaps(zone, 0)
                THEN NoCall
                ELSE [op |-> "create", pc |-> "store", zone |-> zone]]
    /\ UNCHANGED <<zonesIndex, zoneCache>>

\* storeZoneInTile38 (SET zones id ... POLYGON) and cacheZone; the write
\* succeeds (ok) or executeWrite throws
StoreZone(c, ok) ==
    /\ zoneCall[c].op \in {"create", "update"}
    /\ zoneCall[c].pc = "store"
    /\ LET zone == zoneCall[c].zone
       IN IF ok
          THEN /\ zonesIndex' = [zonesIndex EXCEPT ![zone.id] = zone]
               /\ zoneCache' = [zoneCache EXCEPT ![zone.id] = zone]
          ELSE UNCHANGED <<zonesIndex, zoneCache>>
    /\ zoneCall' = [zoneCall EXCEPT ![c] = NoCall]
    /\ UNCHANGED nextZoneId

\* updateZone up to the end of getZone: the updated zone is built from the
\* existing one; coordinates = <<>> and status = "none" stand for absent fields
UpdateZoneGet(c, id, coordinates, status) ==
    /\ zoneCall[c].op = "none"
    /\ coordinates # <<>> \/ status # "none"
    /\ LET existingZone == getZone(id)
           updatedZone ==
               [id |-> id,
                coordinates |-> IF coordinates # <<>> THEN coordinates
                                ELSE existingZone.coordinates,
                status |-> IF status # "none" THEN status ELSE existingZone.status]
       IN /\ zoneCall' = [zoneCall EXCEPT ![c] =
                IF existingZone = NoZone
                THEN NoCall
                ELSE [op |-> "update",
                      pc |-> IF coordinates # <<>> THEN "check" ELSE "store",
                      zone |-> updatedZone]]
          /\ zoneCache' = IF existingZone # NoZone
                          THEN [zoneCache EXCEPT ![id] = existingZone]
                          ELSE zoneCache
    /\ UNCHANGED <<zonesIndex, nextZoneId>>

\* updateZone with coordinates: checkZoneOverlaps(updatedZone, request.id)
UpdateZoneCheck(c) ==
    /\ zoneCall[c].op = "update"
    /\ zoneCall[c].pc = "check"
    /\ zoneCall' = [zoneCall EXCEPT ![c] =
          IF checkZoneOverlaps(zoneCall[c].zone, zoneCall[c].zone.id)
          THEN NoCall
          ELSE [@ EXCEPT !.pc = "store"]]
    /\ UNCHANGED <<zonesIndex, zoneCache, nextZoneId>>

\* deleteZone up to the end of getZone
DeleteZoneGet(c, id) ==
    /\ zoneCall[c].op = "none"
    /\ LET zone == getZone(id)
       IN /\ zoneCall' = [zoneCall EXCEPT ![c] =
                IF zone = NoZone
                THEN NoCall
                ELSE [op |-> "delete", pc |-> "del", zone |-> zone]]
          /\ zoneCache' = IF zone # NoZone
                          THEN [zoneCache EXCEPT ![id] = zone]
                          ELSE zoneCache
    /\ UNCHANGED <<zonesIndex, nextZoneId>>

\* deleteZone: DEL zones id, then removeCachedZone
DeleteZoneDel(c, ok) ==
    /\ zoneCall[c].op = "delete"
    /\ zoneCall[c].pc = "del"
    /\ LET id == zoneCall[c].zone.id
       IN IF ok
          THEN /\ zonesIndex' = [zonesIndex EXCEPT ![id] = NoZone]
               /\ zoneCache' = [zoneCache EXCEPT ![id] = NoZone]
          ELSE UNCHANGED <<zonesIndex, zoneCache>>
    /\ zoneCall' = [zoneCall EXCEPT ![c] = NoCall]
    /\ UNCHANGED nextZoneId

\* CACHE_TTL has passed for a cached zone: getCachedZone / the cleanup timer
\* drop the entry
ZoneCacheExpires(id) ==
    /\ zoneCache[id] # NoZone
    /\ zoneCache' = [zoneCache EXCEPT ![id] = NoZone]
    /\ UNCHANGED <<zonesIndex, zoneCall, nextZoneId>>

(***************************************************************************)
(*   What the calls of the zone manager return to their callers            *)
(***************************************************************************)
VARIABLES
    zonesDeleted,   \* the ids that a deleteZone has deleted
    deleteResult    \* the last deleteZone that has returned: its id, how it
                    \* ended, and whether the id had been deleted before

zoneCallVars == <<zonesDeleted, deleteResult>>

NoDeleteResult == [id |-> 0, outcome |-> "none", repeated |-> FALSE, changed |-> FALSE]

InitZoneCalls ==
    /\ zonesDeleted = {}
    /\ deleteResult = NoDeleteResult

\* deleteZone up to its first write: getZone, and 'Zone not found' is thrown
\* when there is no such zone
DeleteZoneGetReturns(c, id) ==
    /\ DeleteZoneGet(c, id)
    /\ deleteResult' = IF getZone(id) = NoZone
                       THEN [id |-> id, outcome |-> "ZoneNotFound",
                             repeated |-> id \in zonesDeleted, changed |-> FALSE]
                       ELSE deleteResult
    /\ UNCHANGED zonesDeleted

\* deleteZone after DEL: it returns true, or the error of DEL is thrown
DeleteZoneDelReturns(c, ok) ==
    /\ DeleteZoneDel(c, ok)
    /\ deleteResult' = [id |-> zoneCall[c].zone.id,
                        outcome |-> IF ok THEN "succeeded" ELSE "failed",
                        repeated |-> zoneCall[c].zone.id \in zonesDeleted,
                        changed |-> ok]
    /\ zonesDeleted' = IF ok THEN zonesDeleted \cup {zoneCall[c].zone.id} ELSE zonesDeleted

(***************************************************************************)
(*   createZone from a request to the stored polygon, and the read back    *)
(*                                                                         *)
(* One grid unit is 0.0001 degree (about 11 m): two coordinates are within *)
(* the closing tolerances of the validator exactly when they are equal,    *)
(* and one grid cell has an area above the minimum of 100 square metres.   *)
(***************************************************************************)
VARIABLES
    zoneGeometry,   \* the polygon of each object of 'zones': positions <<lon, lat>>
    zoneCachedBox,  \* the boundingBox of each zone object held by zoneCache
    zoneRequests,   \* the request.coordinates each stored zone was created from
    createResult,   \* the last createZone: its request, its zone and how it ended
    zoneRead        \* what the last getZone returned, and from where

zoneCreateVars == <<zoneGeometry, zoneCachedBox, zoneRequests, createResult, zoneRead>>

MinPolygonCoordinates == 3

MaxPolygonCoordinates == 100

NoBox == [minLat |-> 0, maxLat |-> 0, minLon |-> 0, maxLon |-> 0]

NoCreateResult == [request |-> <<>>, id |-> 0, boundingBox |-> NoBox, outcome |-> "none"]

NoZoneRead == [id |-> 0, source |-> "none", coordinates |-> <<>>, boundingBox |-> NoBox]

InitZoneCreate ==
    /\ zoneGeometry = [id \in ZoneIds |-> <<>>]
    /\ zoneCachedBox = [id \in ZoneIds |-> NoBox]
    /\ zoneRequests = [id \in ZoneIds |-> <<>>]
    /\ createResult = NoCreateResult
    /\ zoneRead = NoZoneRead

\* n vertices of a convex arc, not closed: no edge meets another
ConvexArc(n) == [i \in 1..n |-> Coord(i * i, i)]

CloseRing(coordinates) == Append(coordinates, coordinates[1])

OpenRing(coordinates) == SubSeq(coordinates, 1, Len(coordinates) - 1)

\* the coordinates of the requests: open and closed rings of 2 .. 101 vertices,
\* each of them free of self-intersection and of a valid area
RequestPolys ==
    { ConvexArc(n) : n \in {2, 3, 4, 5, MaxPolygonCoordinates, MaxPolygonCoordinates + 1} }
    \cup { CloseRing(ConvexArc(n)) : n \in {3, 4, 5} }
    \cup { PolyA, OpenRing(PolyA), PolyC, OpenRing(PolyC) }

RECURSIVE ShoelaceSum(_, _)
ShoelaceSum(coordinates, i) ==
    IF i >= Len(coordinates) THEN 0
    ELSE coordinates[i].longitude * coordinates[i + 1].latitude
         - coordinates[i + 1].longitude * coordinates[i].latitude
         + ShoelaceSum(coordinates, i + 1)

\* twice the area of the ring, in grid cells
calculatePolygonArea(coordinates) ==
    IF Len(coordinates) < 3 THEN 0
    ELSE LET s == ShoelaceSum(coordinates, 1) IN IF s < 0 THEN 0 - s ELSE s

isSelfIntersecting(coordinates) ==
    LET n == Len(coordinates)
    IN /\ n >= 4
       /\ \E i \in 1..(n - 1) : \E j \in (i + 2)..(n - 1) :
             /\ ~(i = 1 /\ j = n - 1)
             /\ linesIntersect(coordinates[i], coordinates[i + 1],
                               coordinates[j], coordinates[j + 1])

\* validateZonePolygon(zone): whether it returns (ok) or throws, and
\* zone.coordinates as it leaves them (an open ring gets its first point
\* pushed at the end)
validateZonePolygon(coordinates) ==
    LET n == Len(coordinates)
    IN IF n < MinPolygonCoordinates \/ n > MaxPolygonCoordinates
       THEN [ok |-> FALSE, coordinates |-> coordinates]
       ELSE LET isClosedPolygon == coordinates[1] = coordinates[n]
                closed == IF isClosedPolygon THEN coordinates
                          ELSE Append(coordinates, coordinates[1])
                area == calculatePolygonArea(closed)
            IN [ok |-> /\ ~isSelfIntersecting(closed)
                       /\ area >= 2
                       /\ area <= 20000000,
                coordinates |-> closed]

\* validateFourCoordinatePolygon: TRUE when it returns, FALSE when it throws
validateFourCoordinatePolygon(coordinates) ==
    /\ Len(coordinates) \in {4, 5}
    /\ Len(coordinates) = 5 => coordinates[1] = coordinates[5]

\* storeZoneInTile38: each coordinate becomes the position [longitude, latitude]
polygonCoords(coordinates) ==
    [i \in 1..Len(coordinates) |-> <<coordinates[i].longitude, coordinates[i].latitude>>]

positionToCoordinateSwapped(coord) == [latitude |-> coord[1], longitude |-> coord[2]]

\* parseZoneFromTile38: a position of geometry.coordinates[0] becomes a Coordinate
positionToCoordinate(coord) == [longitude |-> coord[1], latitude |-> coord[2]]

\* parseZoneFromTile38 on the reply of GET zones id WITHFIELDS: the
\* coordinates and the bounding box of the zone it returns
parseGeometry(polygon) ==
    LET coordinates == [i \in 1..Len(polygon) |-> positionToCoordinate(polygon[i])]
    IN [coordinates |-> coordinates, boundingBox |-> calculateBoundingBox(coordinates)]

\* createZone up to the end of checkZoneOverlaps, from request.coordinates:
\* the zone object gets a copy of the coordinates and the bounding box of
\* the request, both validators run on the zone, then the overlap check
CreateZoneValidates(c, request) ==
    /\ zoneCall[c].op = "none"
    /\ nextZoneId <= MaxZones
    /\ LET validated == validateZonePolygon(request)
       IN IF validated.ok /\ validateFourCoordinatePolygon(validated.coordinates)
          THEN /\ CreateZoneCheck(c, validated.coordinates)
               /\ createResult' =
                     [request |-> request, id |-> nextZoneId,
                      boundingBox |-> calculateBoundingBox(request),
                      outcome |-> IF zoneCall'[c] = NoCall THEN "overlap" ELSE "pending"]
          ELSE /\ createResult' = [NoCreateResult EXCEPT !.request = request,
                                                         !.outcome = "rejected"]
               /\ UNCHANGED zoneVars
    /\ UNCHANGED <<zoneGeometry, zoneCachedBox, zoneRequests, zoneRead>>

\* the rest of createZone: storeZoneInTile38 and cacheZone, then the zone is
\* returned; or the write throws
StoreZoneCreated(c, ok) ==
    /\ zoneCall[c].op = "create"
    /\ StoreZone(c, ok)
    /\ LET zone == zoneCall[c].zone
       IN IF ok
          THEN /\ zoneGeometry' = [zoneGeometry EXCEPT ![zone.id] = polygonCoords(zone.coordinates)]
               /\ zoneCachedBox' = [zoneCachedBox EXCEPT ![zone.id] = createResult.boundingBox]
               /\ zoneRequests' = [zoneRequests EXCEPT ![zone.id] = createResult.request]
               /\ createResult' = [createResult EXCEPT !.outcome = "created"]
          ELSE /\ createResult' = [createResult EXCEPT !.outcome = "failed"]
               /\ UNCHANGED <<zoneGeometry, zoneCachedBox, zoneRequests>>
    /\ UNCHANGED zoneRead

\* getZone(id): the cached zone object, or the zone parsed from the index,
\* which is cached; null when there is none
GetZoneReturns(id) ==
    IF zoneCache[id] # NoZone
    THEN /\ zoneRead' = [id |-> id, source |-> "cache",
                         coordinates |-> zoneCache[id].coordinates,
                         boundingBox |-> zoneCachedBox[id]]
         /\ UNCHANGED <<zoneVars, zoneGeometry, zoneCachedBox, zoneRequests, createResult>>
    ELSE IF zoneGeometry[id] = <<>>
    THEN /\ zoneRead' = [NoZoneRead EXCEPT !.id = id]
         /\ UNCHANGED <<zoneVars, zoneGeometry, zoneCachedBox, zoneRequests, createResult>>
    ELSE LET zone == parseGeometry(zoneGeometry[id])
         IN /\ zoneRead' = [id |-> id, source |-> "index",
                            coordinates |-> zone.coordinates,
                            boundingBox |-> zone.boundingBox]
            /\ zoneCache' = [zoneCache EXCEPT ![id] =
                  [id |-> id, coordinates |-> zone.coordinates,
                   status |-> zonesIndex[id].status]]
            /\ zoneCachedBox' = [zoneCachedBox EXCEPT ![id] = zone.boundingBox]
            /\ UNCHANGED <<zonesIndex, zoneCall, nextZoneId, zoneGeometry,
                           zoneRequests, createResult>>


(***************************************************************************)
(*   getZone as the two steps it takes: the read of the index, and the     *)
(*   caching of what the read returned                                     *)
(***************************************************************************)

\* getZone up to the end of executeRead: nothing is cached for the id, GET
\* zones id is answered from the index as it is now
GetZoneRead(c, id) ==
    /\ zoneCall[c].op = "none"
    /\ zoneCache[id] = NoZone
    /\ zoneCall' = [zoneCall EXCEPT ![c] =
          IF zonesIndex[id] = NoZone
          THEN NoCall
          ELSE [op |-> "get", pc |-> "cache", zone |-> zonesIndex[id]]]
    /\ UNCHANGED <<zonesIndex, zoneCache, nextZoneId>>

\* getZone after executeRead: cacheZone(zone), and the zone is returned
GetZoneCaches(c) ==
    /\ zoneCall[c].op = "get"
    /\ zoneCall[c].pc = "cache"
    /\ zoneCache' = [zoneCache EXCEPT ![zoneCall[c].zone.id] = zoneCall[c].zone]
    /\ zoneCall' = [zoneCall EXCEPT ![c] = NoCall]
    /\ UNCHANGED <<zonesIndex, nextZoneId>>
(***************************************************************************)
(*   GEOFENCE EVENT DETECTION: the per-update check (Tile38Service,        *)
(*   GeofencingOrchestrator), the periodic sweep (GeofenceWebhookService)  *)
(*   and the event cache (CacheService)                                    *)
(***************************************************************************)
VARIABLES
    tourists,        \* the 'tourists' collection of the index: user -> coordinate
    locationBatch,   \* LocationIndexingService.locationBatch: user -> coordinate
                     \* last pushed and not yet flushed
    geofenceCache,   \* cache entries geofence:<user>:<lat>:<lon>
    sweepZones,      \* the zones of a running sweep that are still to be queried
    emitted          \* the events the last step handed to event processing

eventVars == <<tourists, locationBatch, geofenceCache, sweepZones, emitted>>

\* Model bound
NumUsers == 1

Users == 1..NumUsers

\* a coordinate inside PolyA only, and one inside PolyC only
Positions == {Coord(1, 1), Coord(9, 1)}

NoPosition == Coord(-100, -100)

NoEntry == [present |-> FALSE, events |-> {}]

InitEvents ==
    /\ tourists = [u \in Users |-> NoPosition]
    /\ locationBatch = [u \in Users |-> NoPosition]
    /\ geofenceCache = [u \in Users |-> [p \in Positions |-> NoEntry]]
    /\ sweepZones = {}
    /\ emitted = {}

\* whether the index, as it is now, has the zone and the coordinate is inside
\* its polygon
InsideStoredZone(zoneId, coordinates) ==
    /\ zonesIndex[zoneId] # NoZone
    /\ isPointInPolygon(coordinates, zonesIndex[zoneId].coordinates)

\* a GeofenceEvent; timestamp = new Date() at its construction, and
\* insideAtTimestamp records whether the coordinate was inside the polygon the
\* zone had in the index at that moment
GeofenceEvent(userId, zoneId, coordinates, source) ==
    [userId |-> userId, zoneId |-> zoneId, coordinates |-> coordinates,
     source |-> source,
     insideAtTimestamp |-> InsideStoredZone(zoneId, coordinates)]

\* the reply to INTERSECTS zones POINT lat lon: the stored objects holding the point
IntersectsPoint(coordinates) ==
    { z \in StoredZones : isPointInPolygon(coordinates, z.coordinates) }

\* the reply to WITHIN tourists POLYGON ...: the users whose point is in the polygon
WithinPolygon(polygon) ==
    { u \in Users : tourists[u] # NoPosition /\ isPointInPolygon(tourists[u], polygon) }

\* Tile38Service.checkGeofenceEvents: [events, cache]; lookupOk / storeOk say
\* whether the cache backend answers the lookup / the store
checkGeofenceEvents(userId, coordinates, lookupOk, storeOk) ==
    LET cached == geofenceCache[userId][coordinates]
        events == { GeofenceEvent(userId, z.id, coordinates, "update") :
                        z \in IntersectsPoint(coordinates) }
    IN IF lookupOk /\ cached.present
       THEN [events |-> cached.events, cache |-> geofenceCache]
       ELSE IF storeOk
            THEN [events |-> events,
                  cache |-> [geofenceCache EXCEPT ![userId][coordinates] =
                                [present |-> TRUE, events |-> events]]]
            ELSE [events |-> {}, cache |-> geofenceCache]

\* GeofencingOrchestrator.updateLocation: the update is pushed on the location
\* batch, then the events of checkGeofenceEvents are processed
UpdateLocation(userId, coordinates, lookupOk, storeOk) ==
    LET r == checkGeofenceEvents(userId, coordinates, lookupOk, storeOk)
    IN /\ locationBatch' = [locationBatch EXCEPT ![userId] = coordinates]
       /\ geofenceCache' = r.cache
       /\ emitted' = r.events
       /\ UNCHANGED <<tourists, sweepZones>>

\* LocationIndexingService.flushBatch: SET tourists <user> POINT for the batch
FlushBatch ==
    /\ \E u \in Users : locationBatch[u] # NoPosition
    /\ tourists' = [u \in Users |->
          IF locationBatch[u] # NoPosition THEN locationBatch[u] ELSE tourists[u]]
    /\ locationBatch' = [u \in Users |-> NoPosition]
    /\ emitted' = {}
    /\ UNCHANGED <<geofenceCache, sweepZones>>

\* the TTL of a cache entry runs out, or invalidatePattern('geofence:*:*')
\* removes it
GeofenceCacheExpires(userId, coordinates) ==
    /\ geofenceCache[userId][coordinates].present
    /\ geofenceCache' = [geofenceCache EXCEPT ![userId][coordinates] = NoEntry]
    /\ emitted' = {}
    /\ UNCHANGED <<tourists, locationBatch, sweepZones>>

\* the detection timer fires: getActiveZones() answers from the index as it is
SweepGetActiveZones ==
    /\ sweepZones = {}
    /\ sweepZones' = applyZoneFilters({ parseZoneFromTile38(z) : z \in StoredZones }, "active")
    /\ emitted' = {}
    /\ UNCHANGED <<tourists, locationBatch, geofenceCache>>

\* one pass of the loop of the sweep: the WITHIN query with the coordinates
\* of the zone as getActiveZones returned it, then processZoneIntersections
SweepZone(zone) ==
    /\ zone \in sweepZones
    /\ sweepZones' = sweepZones \ {zone}
    /\ emitted' = { GeofenceEvent(u, zone.id, tourists[u], "sweep") :
                        u \in WithinPolygon(zone.coordinates) }
    /\ UNCHANGED <<tourists, locationBatch, geofenceCache>>

(***************************************************************************)
(*             WEBHOOK DISPATCHER  (GeofenceWebhookService)                *)
(***************************************************************************)
VARIABLES
    webhooks,          \* the registered webhook configurations, by id
    deliveryQueue,     \* the queue of {event, webhooks} entries
    processingQueue,   \* the flag of processWebhookQueue
    whBatch,           \* the entries of the batch in flight
    whProcessed,       \* the last event processGeofenceEvent handled since the
                       \* webhooks last changed, and the webhooks it was queued for
    whDelivered,       \* the last successful delivery: what the endpoint received
    whStats,           \* stats: webhooksDelivered, deliveryFailures, averageDeliveryTime
    whTest             \* the delivery of testWebhook, and the stats before and
                       \* after the step that settled it

webhookVars == <<webhooks, deliveryQueue, processingQueue, whBatch, whProcessed, whDelivered,
                 whStats, whTest>>

\* Model bounds
NumWebhooks == 2
MaxDeliveryQueue == 1

\* config.maxRetries (3 unless configured otherwise)
maxRetries == 2

\* config.batchSize
batchSize == 100

\* the deliveries that are counted, and the calls of testWebhook
MaxDeliveries == 2
MaxTests == 1

\* Date.now() - startTime of a delivery
ResponseTimes == {1, 2}

\* averageDeliveryTime is kept as the fraction num / den in lowest terms
RECURSIVE Gcd(_, _)
Gcd(a, b) == IF b = 0 THEN a ELSE Gcd(b, a % b)

Fraction(num, den) == [num |-> num \div Gcd(num, den), den |-> den \div Gcd(num, den)]

InitialDeliveryStats ==
    [webhooksDelivered |-> 0, deliveryFailures |-> 0, averageDeliveryTime |-> Fraction(0, 1)]

NoTest == [webhookId |-> 0, pc |-> "none", retryCount |-> 0, runs |-> 0,
           before |-> InitialDeliveryStats, after |-> InitialDeliveryStats]

WebhookIds == 1..NumWebhooks

\* a filter of a webhook (zoneIds, zoneTypes): absent, or an array of values
Absent == [defined |-> FALSE, values |-> {}]

Filter(values) == [defined |-> TRUE, values |-> values]

NoWebhook ==
    [id |-> 0, enabled |-> FALSE, eventTypes |-> {}, zoneIds |-> Absent,
     zoneTypes |-> Absent, secret |-> ""]

WebhookConfig(enabled, eventTypes, zoneIds, zoneTypes, secret) ==
    [id |-> 0, enabled |-> enabled, eventTypes |-> eventTypes, zoneIds |-> zoneIds,
     zoneTypes |-> zoneTypes, secret |-> secret]

\* the events handed to the dispatcher
EventInside == [id |-> 1, zoneId |-> 1, zoneType |-> "safe", eventType |-> "inside"]

EventEnter == [id |-> 2, zoneId |-> 2, zoneType |-> "restricted", eventType |-> "enter"]

NoEvent == [id |-> 0, zoneId |-> 0, zoneType |-> "none", eventType |-> "none"]

WebhookEvents == {EventInside, EventEnter}

NoSignature == <<"", 0>>

NothingProcessed == [event |-> NoEvent, queuedFor |-> {}]

NoDelivery == [webhookId |-> 0, secret |-> "", signature |-> NoSignature, event |-> NoEvent]

InitWebhook ==
    /\ webhooks = [w \in WebhookIds |-> NoWebhook]
    /\ deliveryQueue = <<>>
    /\ processingQueue = FALSE
    /\ whBatch = <<>>
    /\ whProcessed = NothingProcessed
    /\ whDelivered = NoDelivery
    /\ whStats = InitialDeliveryStats
    /\ whTest = NoTest

\* HMAC-SHA256 of JSON.stringify(event) under the secret: determined by, and
\* determining, the pair of the key and the message
generateSignature(event, secret) ==
    IF secret = "" THEN NoSignature ELSE <<secret, event.id>>

\* getApplicableWebhooks: `webhook.zoneIds && !webhook.zoneIds.includes(..)`
\* rejects when the array is there (an empty array too) and lacks the value
getApplicableWebhooks(event) ==
    { w \in WebhookIds :
        /\ webhooks[w] # NoWebhook
        /\ webhooks[w].enabled
        /\ ~(webhooks[w].zoneIds.defined /\ event.zoneId \notin webhooks[w].zoneIds.values)
        /\ ~(webhooks[w].zoneTypes.defined /\ event.zoneType \notin webhooks[w].zoneTypes.values)
        /\ event.eventType \in webhooks[w].eventTypes }

registerWebhook(id, config) ==
    /\ webhooks[id] = NoWebhook
    /\ webhooks' = [webhooks EXCEPT ![id] = [config EXCEPT !.id = id]]
    /\ whProcessed' = NothingProcessed
    /\ UNCHANGED <<deliveryQueue, processingQueue, whBatch, whDelivered, whStats, whTest>>

removeWebhook(id) ==
    /\ webhooks[id] # NoWebhook
    /\ webhooks' = [webhooks EXCEPT ![id] = NoWebhook]
    /\ whProcessed' = NothingProcessed
    /\ UNCHANGED <<deliveryQueue, processingQueue, whBatch, whDelivered, whStats, whTest>>

processGeofenceEvent(event) ==
    /\ Len(deliveryQueue) < MaxDeliveryQueue
    /\ LET applicableWebhooks == getApplicableWebhooks(event)
       IN /\ deliveryQueue' =
                IF applicableWebhooks # {}
                THEN Append(deliveryQueue,
                            [event |-> event,
                             webhooks |-> { webhooks[w] : w \in applicableWebhooks }])
                ELSE deliveryQueue
          /\ whProcessed' = [event |-> event, queuedFor |-> applicableWebhooks]
    /\ UNCHANGED <<webhooks, processingQueue, whBatch, whDelivered, whStats, whTest>>

\* a delivery of one entry to one webhook: deliverWebhook
NoPost == [pc |-> "none", retryCount |-> 0, body |-> NoSignature]

\* the timer of startWebhookProcessor fires: processWebhookQueue takes a batch
\* off the queue and starts deliverEventToWebhooks for each entry
processWebhookQueue ==
    /\ ~processingQueue
    /\ Len(deliveryQueue) > 0
    /\ processingQueue' = TRUE
    /\ LET n == Min2(batchSize, Len(deliveryQueue))
       IN /\ whBatch' = [i \in 1..n |->
                [event |-> deliveryQueue[i].event, webhooks |-> deliveryQueue[i].webhooks,
                 stage |-> "zone", signature |-> NoSignature,
                 posts |-> [w \in WebhookIds |-> NoPost]]]
          /\ deliveryQueue' = SubSeq(deliveryQueue, n + 1, Len(deliveryQueue))
    /\ UNCHANGED <<webhooks, whProcessed, whDelivered, whStats, whTest>>

\* payload.signature after the map callback has run for the webhooks of the
\* entry up to the k-th: only a webhook with a secret assigns it
RECURSIVE SignatureAfter(_, _, _)
SignatureAfter(entryWebhooks, event, k) ==
    IF k = 0 THEN NoSignature
    ELSE IF \E c \in entryWebhooks : c.id = k /\ c.secret # ""
         THEN generateSignature(event, (CHOOSE c \in entryWebhooks : c.id = k).secret)
         ELSE SignatureAfter(entryWebhooks, event, k - 1)

\* deliverEventToWebhooks after getZone: one payload object for the entry; the
\* map sets payload.signature and calls deliverWebhook for each webhook in
\* turn.  The HTTP client serialises the body either inside the call of
\* axios.post (eager) or on a later tick, when the map has finished.
deliverEventToWebhooks(i, zoneFound, eager) ==
    /\ i \in 1..Len(whBatch)
    /\ whBatch[i].stage = "zone"
    /\ LET entry == whBatch[i]
           last == SignatureAfter(entry.webhooks, entry.event, NumWebhooks)
       IN whBatch' = [whBatch EXCEPT ![i] =
             IF ~zoneFound
             THEN [entry EXCEPT !.stage = "done"]
             ELSE [entry EXCEPT
                     !.stage = "deliver",
                     !.signature = last,
                     !.posts = [w \in WebhookIds |->
                         IF \E c \in entry.webhooks : c.id = w
                         THEN [pc |-> "post", retryCount |-> 0,
                               body |-> IF eager
                                        THEN SignatureAfter(entry.webhooks, entry.event, w)
                                        ELSE last]
                         ELSE NoPost]]]
    /\ UNCHANGED <<webhooks, deliveryQueue, processingQueue, whProcessed, whDelivered,
                   whStats, whTest>>

\* updateDeliveryStats: the running average over webhooksDelivered + 1 deliveries
updateDeliveryStats(stats, responseTime) ==
    LET count == stats.webhooksDelivered + 1
        average == stats.averageDeliveryTime
    IN [stats EXCEPT !.averageDeliveryTime =
            Fraction(average.num * stats.webhooksDelivered + responseTime * average.den,
                     average.den * count)]

\* deliverWebhook with one retry more than maxRetries
deliverWebhookRetriesOnceMore(stats, retryCount, isTest, ok, responseTime) ==
    IF ok
    THEN [stats |-> IF isTest
                    THEN updateDeliveryStats(stats, responseTime)
                    ELSE [updateDeliveryStats(stats, responseTime)
                            EXCEPT !.webhooksDelivered = @ + 1],
          retryCount |-> retryCount,
          pc |-> "delivered"]
    ELSE IF retryCount <= maxRetries
    THEN [stats |-> stats, retryCount |-> retryCount + 1, pc |-> "delay"]
    ELSE [stats |-> [stats EXCEPT !.deliveryFailures = @ + 1],
          retryCount |-> retryCount + 1,
          pc |-> "failed"]

\* deliverWebhook when a POST is answered (ok: 2xx) or fails, for a delivery
\* that has failed retryCount times before: the stats, the retry count and
\* where the delivery stands afterwards
deliverWebhook(stats, retryCount, isTest, ok, responseTime) ==
    IF ok
    THEN [stats |-> IF isTest
                    THEN updateDeliveryStats(stats, responseTime)
                    ELSE [updateDeliveryStats(stats, responseTime)
                            EXCEPT !.webhooksDelivered = @ + 1],
          retryCount |-> retryCount,
          pc |-> "delivered"]
    ELSE IF retryCount + 1 <= maxRetries
    THEN [stats |-> stats, retryCount |-> retryCount + 1, pc |-> "delay"]
    ELSE [stats |-> [stats EXCEPT !.deliveryFailures = @ + 1],
          retryCount |-> retryCount + 1,
          pc |-> "failed"]

DeliveriesCounted == whStats.webhooksDelivered + whStats.deliveryFailures

\* deliverWebhook: the POST of entry i to webhook w is answered (ok: 2xx) or fails
postSettles(i, w, ok, responseTime) ==
    /\ DeliveriesCounted < MaxDeliveries
    /\ i \in 1..Len(whBatch)
    /\ whBatch[i].stage = "deliver"
    /\ whBatch[i].posts[w].pc = "post"
    /\ LET entry == whBatch[i]
           post == entry.posts[w]
           config == CHOOSE c \in entry.webhooks : c.id = w
           settled == deliverWebhook(whStats, post.retryCount, FALSE, ok, responseTime)
       IN /\ whBatch' = [whBatch EXCEPT ![i].posts[w] =
                [post EXCEPT !.retryCount = settled.retryCount, !.pc = settled.pc]]
          /\ whStats' = settled.stats
          /\ whDelivered' = IF ok
                            THEN [webhookId |-> w, secret |-> config.secret,
                                  signature |-> post.body, event |-> entry.event]
                            ELSE whDelivered
    /\ UNCHANGED <<webhooks, deliveryQueue, processingQueue, whProcessed, whTest>>

\* deliverWebhook: the delay before a retry is over; the same payload object
\* is posted again, as it is now
retryDelayElapsed(i, w) ==
    /\ i \in 1..Len(whBatch)
    /\ whBatch[i].posts[w].pc = "delay"
    /\ whBatch' = [whBatch EXCEPT ![i].posts[w].pc = "post",
                                  ![i].posts[w].body = whBatch[i].signature]
    /\ UNCHANGED <<webhooks, deliveryQueue, processingQueue, whProcessed, whDelivered,
                   whStats, whTest>>

EntrySettled(entry) ==
    \/ entry.stage = "done"
    \/ /\ entry.stage = "deliver"
       /\ \A w \in WebhookIds : entry.posts[w].pc \in {"none", "delivered", "failed"}

\* processWebhookQueue: Promise.allSettled has resolved, the flag is cleared
batchSettled ==
    /\ processingQueue
    /\ \A i \in 1..Len(whBatch) : EntrySettled(whBatch[i])
    /\ processingQueue' = FALSE
    /\ whBatch' = <<>>
    /\ UNCHANGED <<webhooks, deliveryQueue, whProcessed, whDelivered, whStats, whTest>>


\* testWebhook(id): a test event is delivered to the webhook with isTest = true
testWebhook(id) ==
    /\ whTest.pc \in {"none", "delivered", "failed", "notFound"}
    /\ whTest.runs < MaxTests
    /\ whTest' = [webhookId |-> id,
                  pc |-> IF webhooks[id] = NoWebhook THEN "notFound" ELSE "post",
                  retryCount |-> 0, runs |-> whTest.runs + 1,
                  before |-> whStats, after |-> whStats]
    /\ UNCHANGED <<webhooks, deliveryQueue, processingQueue, whBatch, whProcessed,
                   whDelivered, whStats>>

\* deliverWebhook of the test delivery: its POST is answered or fails
testPostSettles(ok, responseTime) ==
    /\ whTest.pc = "post"
    /\ DeliveriesCounted < MaxDeliveries
    /\ LET settled == deliverWebhook(whStats, whTest.retryCount, TRUE, ok, responseTime)
       IN /\ whStats' = settled.stats
          /\ whTest' = [whTest EXCEPT !.pc = settled.pc,
                                      !.retryCount = settled.retryCount,
                                      !.before = whStats,
                                      !.after = settled.stats]
    /\ UNCHANGED <<webhooks, deliveryQueue, processingQueue, whBatch, whProcessed,
                   whDelivered>>

\* deliverWebhook of the test delivery: the delay before a retry is over
testRetryDelayElapsed ==
    /\ whTest.pc = "delay"
    /\ whTest' = [whTest EXCEPT !.pc = "post"]
    /\ UNCHANGED <<webhooks, deliveryQueue, processingQueue, whBatch, whProcessed,
                   whDelivered, whStats>>

(***************************************************************************)
(*   What deliverWebhook does for one delivery: its POSTs, the waits       *)
(*   before its retries, and the failures it records                       *)
(***************************************************************************)
VARIABLES
    retryLog     \* for entry i of the batch and webhook w: the POSTs made, the
                 \* waits asked for, and the failures counted in the stats

whRetryVars == <<retryLog>>

\* config.retryDelay, in ms
retryDelay == 5000

NoRetryLog ==
    [i \in 1..MaxDeliveryQueue |->
        [w \in WebhookIds |-> [posts |-> 0, waits |-> <<>>, failures |-> 0]]]

InitRetries == retryLog = NoRetryLog

\* the wait of deliverWebhook after the retryCount-th failure of a delivery
retryWait(retryCount) == retryDelay * retryCount

\* processWebhookQueue takes a batch: its deliveries begin
ProcessWebhookQueueLogged ==
    /\ processWebhookQueue
    /\ retryLog' = NoRetryLog

\* a POST of deliverWebhook is answered or fails
PostSettlesLogged(i, w, ok, responseTime) ==
    /\ postSettles(i, w, ok, responseTime)
    /\ LET post == whBatch'[i].posts[w]
       IN retryLog' = [retryLog EXCEPT ![i][w] =
             [posts |-> @.posts + 1,
              waits |-> IF post.pc = "delay"
                        THEN Append(@.waits, retryWait(post.retryCount))
                        ELSE @.waits,
              failures |-> @.failures + whStats'.deliveryFailures - whStats.deliveryFailures]]

(***************************************************************************)
(*   GeofenceEvent.webhookDelivered of the events handed to the dispatcher *)
(***************************************************************************)
VARIABLES
    webhookDelivered   \* by event id: "undefined", "true" or "false"

eventFlagVars == <<webhookDelivered>>

\* the events are built without the optional field webhookDelivered, and no
\* statement of the dispatcher or of the orchestrator assigns it
InitEventFlags == webhookDelivered = [e \in { event.id : event \in WebhookEvents } |-> "undefined"]

\* updateWebhook(id, {enabled: false}): a new configuration object replaces
\* the registered one
disableWebhook(id) ==
    /\ webhooks[id] # NoWebhook
    /\ webhooks[id].enabled
    /\ webhooks' = [webhooks EXCEPT ![id].enabled = FALSE]
    /\ whProcessed' = NothingProcessed
    /\ UNCHANGED <<deliveryQueue, processingQueue, whBatch, whDelivered, whStats, whTest>>
(***************************************************************************)
(*                 ORCHESTRATOR  (GeofencingOrchestrator)                  *)
(***************************************************************************)
VARIABLES
    orchPc,          \* "new": not constructed; "connecting", "initializingSupabase":
                     \* setupServices is at an await; "wired"; "failed": it threw
    orchConfig,      \* the OrchestratorConfig flags
    orchServices,    \* the service fields that have been assigned
    isInitialized,
    orchCall,        \* the last public operation called and its outcome
    shutdownPc,      \* shutdown(): 0 not called, k: at step k, "done" / "aborted" as numbers
    shutdownLog,     \* the components shutdown() has stopped, in order
    shutdownWired    \* whether wiring had completed when shutdown() was called

orchVars == <<orchPc, orchConfig, orchServices, isInitialized, orchCall, shutdownPc,
              shutdownLog, shutdownWired>>

DefaultConfig == [enablePerformanceMonitoring |-> TRUE, enableCaching |-> TRUE,
                  enableLoadBalancing |-> TRUE, enableSupabaseIntegration |-> FALSE]

\* enableCaching and enableSupabaseIntegration stand for the flag together
\* with the presence of its redis / supabase section
OrchestratorConfigs ==
    [enablePerformanceMonitoring : BOOLEAN, enableCaching : BOOLEAN,
     enableLoadBalancing : BOOLEAN, enableSupabaseIntegration : BOOLEAN]

\* the public operations that begin with the isInitialized guard
GuardedOps == {"updateLocation", "processBulkLocations", "queueLocationUpdate",
               "createZone", "deleteZone", "getUserLocation", "getUserLocationHistory",
               "findNearbyUsers", "findUsersInZone", "calculateDistance",
               "calculateDistanceMatrix", "findNearestPoint", "syncZonesFromSupabase"}

PublicOps == GuardedOps \cup {"getProcessingStats", "getPerformanceSummary",
                              "getCacheStats", "getSupabaseSyncStats",
                              "getDistanceStats", "getHealthStatus"}

NoOrchCall == [op |-> "none", outcome |-> "none", initialized |-> FALSE]

InitOrch ==
    /\ orchPc = "new"
    /\ orchConfig = DefaultConfig
    /\ orchServices = {}
    /\ isInitialized = FALSE
    /\ orchCall = NoOrchCall
    /\ shutdownPc = 0
    /\ shutdownLog = <<>>
    /\ shutdownWired = FALSE

\* setupServices from the distance service to the end
SetupCoreServices(config, services) ==
    [pc |-> "wired",
     services |-> services \cup {"distanceService", "tile38Service", "zoneService",
                                 "locationService", "webhookService", "bulkProcessor"},
     initialized |-> TRUE]

\* setupServices from the load balancer on: it stops at
\* supabaseService.initialize() when the integration is enabled
SetupAfterCache(config, services) ==
    LET withBalancer == services \cup
            (IF config.enableLoadBalancing THEN {"loadBalancer"} ELSE {})
    IN IF config.enableSupabaseIntegration
       THEN [pc |-> "initializingSupabase",
             services |-> withBalancer \cup {"supabaseService"},
             initialized |-> FALSE]
       ELSE SetupCoreServices(config, withBalancer)

\* setupServices from its beginning: it stops at cacheService.connect() when
\* caching is enabled
SetupFromStart(config) ==
    LET first == {"connectionManager"}
            \cup (IF config.enablePerformanceMonitoring THEN {"performanceMonitor"} ELSE {})
            \cup (IF config.enableCaching THEN {"cacheService"} ELSE {})
    IN IF config.enableCaching
       THEN [pc |-> "connecting", services |-> first, initialized |-> FALSE]
       ELSE SetupAfterCache(config, first)

\* new GeofencingOrchestrator(config, orchestratorConfig): the constructor
\* calls setupServices(), which runs up to its first await
Construct(config) ==
    /\ orchPc = "new"
    /\ orchConfig' = config
    /\ orchPc' = SetupFromStart(config).pc
    /\ orchServices' = SetupFromStart(config).services
    /\ isInitialized' = SetupFromStart(config).initialized
    /\ UNCHANGED <<orchCall, shutdownPc, shutdownLog, shutdownWired>>

\* the awaited connect() / initialize() has settled: setupServices goes on to
\* its next await or to its end, or it throws
SetupServicesResumes(settled) ==
    /\ orchPc \in {"connecting", "initializingSupabase"}
    /\ LET next == IF orchPc = "connecting"
                   THEN SetupAfterCache(orchConfig, orchServices)
                   ELSE SetupCoreServices(orchConfig, orchServices)
       IN IF settled
          THEN /\ orchPc' = next.pc
               /\ orchServices' = next.services
               /\ isInitialized' = (isInitialized \/ next.initialized)
          ELSE /\ orchPc' = "failed"
               /\ UNCHANGED <<orchServices, isInitialized>>
    /\ UNCHANGED <<orchConfig, orchCall, shutdownPc, shutdownLog, shutdownWired>>

\* what a public operation does when it is called in the present state
Outcome(op) ==
    IF op \in GuardedOps
    THEN IF ~isInitialized THEN "NotInitialized" ELSE "result"
    ELSE IF op = "getProcessingStats"
    THEN IF "bulkProcessor" \notin orchServices
         THEN "BulkProcessorNotInitialized" ELSE "result"
    ELSE IF op = "getPerformanceSummary"
    THEN IF "performanceMonitor" \notin orchServices THEN "notEnabled" ELSE "result"
    ELSE IF op = "getCacheStats"
    THEN IF "cacheService" \notin orchServices THEN "notEnabled" ELSE "result"
    ELSE IF op = "getSupabaseSyncStats"
    THEN IF "supabaseService" \notin orchServices THEN "notEnabled" ELSE "result"
    ELSE IF op = "getDistanceStats"
    THEN IF "distanceService" \notin orchServices THEN "TypeError" ELSE "result"
    ELSE IF "tile38Service" \notin orchServices THEN "TypeError" ELSE "result"

\* a public operation is called
CallPublic(op) ==
    /\ orchPc # "new"
    /\ orchCall' = [op |-> op, outcome |-> Outcome(op), initialized |-> isInitialized]
    /\ UNCHANGED <<orchPc, orchConfig, orchServices, isInitialized, shutdownPc,
                   shutdownLog, shutdownWired>>

\* a shutdown that stops the webhook service before the load balancer
shutdownOrderWebhookFirst ==
    << "bulkProcessor", "webhookService", "loadBalancer", "performanceMonitor",
       "cacheService", "connectionManager", "tile38Service" >>

\* the order in which shutdown() goes through the services
shutdownOrder ==
    << "bulkProcessor", "loadBalancer", "performanceMonitor", "cacheService",
       "webhookService", "connectionManager", "tile38Service" >>

ShutdownDone == Len(shutdownOrder) + 1

ShutdownAborted == Len(shutdownOrder) + 2

\* shutdown() is called
ShutdownCall ==
    /\ orchPc # "new"
    /\ shutdownPc = 0
    /\ shutdownPc' = 1
    /\ shutdownWired' = isInitialized
    /\ UNCHANGED <<orchPc, orchConfig, orchServices, isInitialized, orchCall, shutdownLog>>

\* one step of shutdown(): the service of this step, when the field is set,
\* is shut down; its shutdown completes (ok) or throws into the catch block.
\* After the last step isInitialized is cleared.
ShutdownStep(ok) ==
    /\ shutdownPc \in 1..Len(shutdownOrder)
    /\ LET service == shutdownOrder[shutdownPc]
           threw == service \in orchServices /\ ~ok
       IN /\ shutdownPc' = IF threw THEN ShutdownAborted ELSE shutdownPc + 1
          /\ shutdownLog' = IF service \in orchServices /\ ok
                            THEN Append(shutdownLog, service) ELSE shutdownLog
          /\ isInitialized' = IF ~threw /\ shutdownPc = Len(shutdownOrder)
                              THEN FALSE ELSE isInitialized
    /\ UNCHANGED <<orchPc, orchConfig, orchServices, orchCall, shutdownWired>>

(***************************************************************************)
(*                 BULK PROCESSOR  (BulkLocationProcessor)                 *)
(***************************************************************************)
VARIABLES
    bulkQueue,       \* queue: the retryCount of each queued item
    bulkProcessing,  \* processing
    batchTimer,      \* "null", "pending", or "inactive": a handle that was
                     \* cleared or has fired
    bulkInFlight,    \* the items of the batch that have not settled yet
    bulkShutdownPc   \* shutdown(): "idle", "waiting" in waitForQueueEmpty, "done"

bulkVars == <<bulkQueue, bulkProcessing, batchTimer, bulkInFlight, bulkShutdownPc>>

MaxBulkQueue == 5

bulkBatchSize == 3

bulkMaxRetries == 2

InitBulk ==
    /\ bulkQueue = <<>>
    /\ bulkProcessing = FALSE
    /\ batchTimer = "null"
    /\ bulkInFlight = <<>>
    /\ bulkShutdownPc = "idle"

Min(a, b) == IF a < b THEN a ELSE b

\* processBatch when processing is false and the queue is q
processBatch(q, timer) ==
    IF Len(q) = 0
    THEN [queue |-> q, processing |-> FALSE, timer |-> timer, inFlight |-> <<>>]
    ELSE [queue |-> SubSeq(q, Min(Len(q), bulkBatchSize) + 1, Len(q)),
          processing |-> TRUE,
          timer |-> "null",
          inFlight |-> SubSeq(q, 1, Min(Len(q), bulkBatchSize))]

\* scheduleProcessing when the queue is q: the timer is set again, and the
\* batch is processed at once when the queue holds a full batch
scheduleProcessing(q) ==
    IF Len(q) >= bulkBatchSize
    THEN processBatch(q, "pending")
    ELSE [queue |-> q, processing |-> FALSE, timer |-> "pending", inFlight |-> <<>>]

queueLocationUpdate ==
    /\ Len(bulkQueue) + Len(bulkInFlight) < MaxBulkQueue
    /\ LET q == Append(bulkQueue, 0)
       IN IF ~bulkProcessing
          THEN /\ bulkQueue' = scheduleProcessing(q).queue
               /\ bulkProcessing' = scheduleProcessing(q).processing
               /\ batchTimer' = scheduleProcessing(q).timer
               /\ bulkInFlight' = scheduleProcessing(q).inFlight
          ELSE /\ bulkQueue' = q
               /\ UNCHANGED <<bulkProcessing, batchTimer, bulkInFlight>>
    /\ UNCHANGED bulkShutdownPc

\* the batch timer fires: processBatch
BatchTimerFires ==
    /\ batchTimer = "pending"
    /\ IF bulkProcessing \/ Len(bulkQueue) = 0
       THEN /\ batchTimer' = "inactive"
            /\ UNCHANGED <<bulkQueue, bulkProcessing, bulkInFlight>>
       ELSE /\ bulkQueue' = processBatch(bulkQueue, "inactive").queue
            /\ bulkProcessing' = TRUE
            /\ batchTimer' = "null"
            /\ bulkInFlight' = processBatch(bulkQueue, "inactive").inFlight
    /\ UNCHANGED bulkShutdownPc

RemoveAt(s, i) == SubSeq(s, 1, i - 1) \o SubSeq(s, i + 1, Len(s))

\* one item of the batch settles in processChunk: it is processed, or it
\* fails and handleProcessingError puts it back at the front of the queue
\* while it has retries left, or its chunk got no connection and is given up
\* (with the batch sizes of the model a chunk is one item)
ItemSettles(i, outcome) ==
    /\ bulkProcessing
    /\ i \in 1..Len(bulkInFlight)
    /\ bulkInFlight' = RemoveAt(bulkInFlight, i)
    /\ bulkQueue' = IF outcome = "failed" /\ bulkInFlight[i] < bulkMaxRetries
                    THEN <<bulkInFlight[i] + 1>> \o bulkQueue
                    ELSE bulkQueue
    /\ UNCHANGED <<bulkProcessing, batchTimer, bulkShutdownPc>>

\* the outcomes of an item: processChunk begins with
\* connectionManager.getConnection(), whose error ("noConnection") ends the
\* chunk before its first item.  The ConnectionManager of this repository
\* defines no getConnection: handed that class, as the orchestrator does, the
\* call throws for every chunk
ItemOutcomes == {"processed", "failed", "noConnection"}

\* processLocationBatch has settled: the finally block of processBatch
BatchSettled ==
    /\ bulkProcessing
    /\ bulkInFlight = <<>>
    /\ IF Len(bulkQueue) > 0
       THEN /\ bulkQueue' = scheduleProcessing(bulkQueue).queue
            /\ bulkProcessing' = scheduleProcessing(bulkQueue).processing
            /\ batchTimer' = scheduleProcessing(bulkQueue).timer
            /\ bulkInFlight' = scheduleProcessing(bulkQueue).inFlight
       ELSE /\ bulkProcessing' = FALSE
            /\ UNCHANGED <<bulkQueue, batchTimer, bulkInFlight>>
    /\ UNCHANGED bulkShutdownPc

clearQueue ==
    /\ bulkQueue # <<>>
    /\ bulkQueue' = <<>>
    /\ UNCHANGED <<bulkProcessing, batchTimer, bulkInFlight, bulkShutdownPc>>

\* shutdown(): the batch timer is cleared, then waitForQueueEmpty checks the
\* queue for the first time
BulkShutdown ==
    /\ bulkShutdownPc = "idle"
    /\ batchTimer' = IF batchTimer = "pending" THEN "inactive" ELSE batchTimer
    /\ bulkShutdownPc' = IF Len(bulkQueue) = 0 /\ ~bulkProcessing
                         THEN "done" ELSE "waiting"
    /\ UNCHANGED <<bulkQueue, bulkProcessing, bulkInFlight>>

\* waitForQueueEmpty: checkQueue runs again after 100 ms
checkQueue ==
    /\ bulkShutdownPc = "waiting"
    /\ bulkShutdownPc' = IF Len(bulkQueue) = 0 /\ ~bulkProcessing
                         THEN "done" ELSE "waiting"
    /\ UNCHANGED <<bulkQueue, bulkProcessing, batchTimer, bulkInFlight>>

(***************************************************************************)
(*   What becomes of the locations the bulk processor has accepted         *)
(***************************************************************************)
VARIABLES
    bulkLedger,       \* how many locations were accepted, processed (successCount),
                      \* reported by locationFailed, and discarded by clearQueue
    batchesInFlight,  \* the calls of processBatch that are past their guard
                      \* and have not reached the end of their finally block
    lateArrival       \* the first location that arrived during a running
                      \* batch: where it is in the queue, or what became of it

bulkItemVars == <<bulkLedger, batchesInFlight, lateArrival>>

MaxAccepted == 4

NoLateArrival == [state |-> "none", pos |-> 0]

InitBulkItems ==
    /\ bulkLedger = [accepted |-> 0, processed |-> 0, reported |-> 0, cleared |-> 0]
    /\ batchesInFlight = 0
    /\ lateArrival = NoLateArrival

\* the late arrival after a step that put `unshifted` items in front of the
\* queue and then spliced `taken` items off its front for a batch
LateAfter(late, unshifted, taken) ==
    IF late.state # "queued" THEN late
    ELSE IF late.pos + unshifted <= taken THEN [state |-> "pickedUp", pos |-> 0]
    ELSE [state |-> "queued", pos |-> late.pos + unshifted - taken]

\* queueLocationUpdate resolves: the location is accepted
QueueLocationUpdateAccepted ==
    /\ bulkLedger.accepted < MaxAccepted
    /\ queueLocationUpdate
    /\ bulkLedger' = [bulkLedger EXCEPT !.accepted = @ + 1]
    /\ LET started == IF bulkProcessing THEN <<>>
                      ELSE scheduleProcessing(Append(bulkQueue, 0)).inFlight
       IN /\ batchesInFlight' = batchesInFlight + (IF started # <<>> THEN 1 ELSE 0)
          /\ lateArrival' =
                IF bulkProcessing /\ lateArrival.state = "none"
                THEN [state |-> "queued", pos |-> Len(bulkQueue) + 1]
                ELSE LateAfter(lateArrival, 0, Len(started))

\* the batch timer fires: processBatch starts a batch unless its guard returns
BatchTimerStartsBatch ==
    /\ BatchTimerFires
    /\ LET started == IF bulkProcessing \/ Len(bulkQueue) = 0 THEN <<>>
                      ELSE processBatch(bulkQueue, "inactive").inFlight
       IN /\ batchesInFlight' = batchesInFlight + (IF started # <<>> THEN 1 ELSE 0)
          /\ lateArrival' = LateAfter(lateArrival, 0, Len(started))
    /\ UNCHANGED bulkLedger

\* one item of the running batch settles, with what processChunk counts and
\* what handleProcessingError emits
ItemSettlesCounted(i, outcome) ==
    /\ ItemSettles(i, outcome)
    /\ bulkLedger' =
          IF outcome = "processed" THEN [bulkLedger EXCEPT !.processed = @ + 1]
          ELSE IF outcome = "failed" /\ bulkInFlight[i] >= bulkMaxRetries
          THEN [bulkLedger EXCEPT !.reported = @ + 1]
          ELSE bulkLedger
    /\ lateArrival' = LateAfter(lateArrival, Len(bulkQueue') - Len(bulkQueue), 0)
    /\ UNCHANGED batchesInFlight

\* the finally block of processBatch: the batch is over, and scheduleProcessing
\* may start the next one at once
BatchSettledCounted ==
    /\ BatchSettled
    /\ LET started == IF Len(bulkQueue) > 0 THEN scheduleProcessing(bulkQueue).inFlight
                      ELSE <<>>
       IN /\ batchesInFlight' = batchesInFlight - 1 + (IF started # <<>> THEN 1 ELSE 0)
          /\ lateArrival' = LateAfter(lateArrival, 0, Len(started))
    /\ UNCHANGED bulkLedger

\* clearQueue(): the caller discards what is queued
ClearQueueCounted ==
    /\ clearQueue
    /\ bulkLedger' = [bulkLedger EXCEPT !.cleared = @ + Len(bulkQueue)]
    /\ lateArrival' = IF lateArrival.state = "queued"
                      THEN [state |-> "cleared", pos |-> 0] ELSE lateArrival
    /\ UNCHANGED batchesInFlight


(***************************************************************************)
(*   The bulk processor with a clock: how long the batch timer has run     *)
(*   and how long the queue has been waiting for a batch                   *)
(***************************************************************************)
VARIABLES
    timerAge,    \* the time since batchTimer was set, in ticks
    idleWait     \* the time for which the queue has held items with no batch
                 \* in flight, in ticks: its oldest item has waited that long

bulkTimeVars == <<timerAge, idleWait>>

\* config.maxWaitTime (1000 ms) in ticks
bulkMaxWait == 2

InitBulkTime ==
    /\ timerAge = 0
    /\ idleWait = 0

\* the clocks after a step of the processor: setTimeout starts the timer
\* anew (rearmed), and the wait ends when a batch starts or the queue is empty
BulkClocks(rearmed) ==
    /\ timerAge' = IF rearmed THEN 0 ELSE timerAge
    /\ idleWait' = IF bulkProcessing' \/ bulkQueue' = <<>> THEN 0 ELSE idleWait

\* a tick passes; a pending timer fires when maxWaitTime has passed
BulkTick ==
    /\ batchTimer = "pending" => timerAge < bulkMaxWait
    /\ idleWait <= bulkMaxWait
    /\ timerAge' = IF batchTimer = "pending" THEN timerAge + 1 ELSE timerAge
    /\ idleWait' = IF ~bulkProcessing /\ bulkQueue # <<>> THEN idleWait + 1 ELSE idleWait
    /\ UNCHANGED bulkVars

\* queueLocationUpdate: scheduleProcessing clears the timer and sets it again
\* when no batch is in flight
QueueLocationUpdateTimed ==
    /\ queueLocationUpdate
    /\ BulkClocks(~bulkProcessing)

\* the batch timer fires maxWaitTime after it was set
BatchTimerFiresOnTime ==
    /\ timerAge = bulkMaxWait
    /\ BatchTimerFires
    /\ BulkClocks(FALSE)

ItemSettlesTimed(i, outcome) ==
    /\ ItemSettles(i, outcome)
    /\ BulkClocks(FALSE)

\* the finally block of processBatch: scheduleProcessing when items are left
BatchSettledTimed ==
    /\ BatchSettled
    /\ BulkClocks(Len(bulkQueue) > 0)
(***************************************************************************)
(*          CACHE  (CacheService and the operations that use it)           *)
(***************************************************************************)
VARIABLES
    cacheUp,        \* whether the Redis backend answers
    cacheEntries,   \* the entry under each key: <<>> when absent, <<value>> otherwise
    cacheStats,     \* stats
    cacheCall,      \* the last operation called and how it ended
    indexLocation,  \* the location of the user in the Tile38 index: <<>> or <<value>>
    indexZone       \* whether the zone is stored in the Tile38 index

cacheVars == <<cacheUp, cacheEntries, cacheStats, cacheCall, indexLocation, indexZone>>

MaxCacheOps == 6

LocationValues == {1, 2}

CacheKeys == {"location", "zone", "geofence"}

\* hitRate is kept as the fraction num / den; den = 0 is the NaN of 0 / 0
InitialStats == [hits |-> 0, misses |-> 0, sets |-> 0, deletes |-> 0,
                 totalOperations |-> 0, hitRate |-> [num |-> 0, den |-> 1]]

NoCacheCall == [op |-> "none", outcome |-> "none", backendFailed |-> FALSE,
                countedMiss |-> FALSE]

CacheCallOf(op, outcome, countedMiss) ==
    [op |-> op, outcome |-> outcome, backendFailed |-> ~cacheUp,
     countedMiss |-> countedMiss]

InitCache ==
    /\ cacheUp = TRUE
    /\ cacheEntries = [k \in CacheKeys |-> <<>>]
    /\ cacheStats = InitialStats
    /\ cacheCall = NoCacheCall
    /\ indexLocation = <<>>
    /\ indexZone = TRUE

OpsCounted(stats) == stats.hits + stats.misses + stats.sets + stats.deletes

updateStats(stats) ==
    LET total == stats.hits + stats.misses + stats.sets + stats.deletes
    IN [stats EXCEPT !.totalOperations = total,
                     !.hitRate = IF total > 0
                                 THEN [num |-> stats.hits, den |-> stats.hits + stats.misses]
                                 ELSE [num |-> 0, den |-> 1]]

\* cacheLocation, cacheZone, cacheGeofenceEvents: setex, then the stats; the
\* catch block emits cacheError and throws the error again
cacheSet(key, value) ==
    IF cacheUp
    THEN [entries |-> [cacheEntries EXCEPT ![key] = <<value>>],
          stats |-> updateStats([cacheStats EXCEPT !.sets = @ + 1]),
          outcome |-> "ok"]
    ELSE [entries |-> cacheEntries, stats |-> cacheStats, outcome |-> "raised"]

\* getCachedLocation, getCachedZone: a hit, a miss, and a miss too when get fails
cacheGet(key) ==
    IF cacheUp /\ cacheEntries[key] # <<>>
    THEN [stats |-> updateStats([cacheStats EXCEPT !.hits = @ + 1]),
          outcome |-> "hit", value |-> cacheEntries[key]]
    ELSE [stats |-> updateStats([cacheStats EXCEPT !.misses = @ + 1]),
          outcome |-> "miss", value |-> <<>>]

\* invalidateLocationCache, invalidateZoneCache: del, then the stats; the
\* catch block throws the error again
cacheInvalidate(key) ==
    IF cacheUp
    THEN [entries |-> [cacheEntries EXCEPT ![key] = <<>>],
          stats |-> updateStats([cacheStats EXCEPT !.deletes = @ + 1]),
          outcome |-> "ok"]
    ELSE [entries |-> cacheEntries, stats |-> cacheStats, outcome |-> "raised"]

\* invalidatePattern('geofence:*:*') on the entries and stats given
invalidatePattern(entries, stats) ==
    IF ~cacheUp
    THEN [entries |-> entries, stats |-> stats, outcome |-> "raised"]
    ELSE IF entries["geofence"] # <<>>
    THEN [entries |-> [entries EXCEPT !["geofence"] = <<>>],
          stats |-> updateStats([stats EXCEPT !.deletes = @ + 1]),
          outcome |-> "ok"]
    ELSE [entries |-> entries, stats |-> stats, outcome |-> "ok"]

\* the backend goes down or comes back
CacheBackendChanges ==
    /\ cacheUp' = ~cacheUp
    /\ UNCHANGED <<cacheEntries, cacheStats, cacheCall, indexLocation, indexZone>>

\* the TTL of an entry runs out
CacheEntryExpires(key) ==
    /\ cacheEntries[key] # <<>>
    /\ cacheEntries' = [cacheEntries EXCEPT ![key] = <<>>]
    /\ UNCHANGED <<cacheUp, cacheStats, cacheCall, indexLocation, indexZone>>

\* a store operation is called
CacheStoreCall(key, value) ==
    /\ OpsCounted(cacheStats) < MaxCacheOps
    /\ cacheEntries' = cacheSet(key, value).entries
    /\ cacheStats' = cacheSet(key, value).stats
    /\ cacheCall' = CacheCallOf("store", cacheSet(key, value).outcome, FALSE)
    /\ UNCHANGED <<cacheUp, indexLocation, indexZone>>

\* a lookup operation is called
CacheLookupCall(key) ==
    /\ OpsCounted(cacheStats) < MaxCacheOps
    /\ cacheStats' = cacheGet(key).stats
    /\ cacheCall' = CacheCallOf("lookup", cacheGet(key).outcome,
                                cacheGet(key).stats.misses = cacheStats.misses + 1)
    /\ UNCHANGED <<cacheUp, cacheEntries, indexLocation, indexZone>>

\* an invalidate operation is called
CacheInvalidateCall(key) ==
    /\ OpsCounted(cacheStats) < MaxCacheOps
    /\ cacheEntries' = cacheInvalidate(key).entries
    /\ cacheStats' = cacheInvalidate(key).stats
    /\ cacheCall' = CacheCallOf("invalidate", cacheInvalidate(key).outcome, FALSE)
    /\ UNCHANGED <<cacheUp, indexLocation, indexZone>>

\* batchSet of one location: pipeline.exec, then the stats; the catch block
\* throws the error again
batchSet(value) ==
    /\ OpsCounted(cacheStats) < MaxCacheOps
    /\ cacheEntries' = cacheSet("location", value).entries
    /\ cacheStats' = cacheSet("location", value).stats
    /\ cacheCall' = CacheCallOf("batchSet", cacheSet("location", value).outcome, FALSE)
    /\ UNCHANGED <<cacheUp, indexLocation, indexZone>>

\* batchGet of one key: a failed pipeline.exec is thrown again
batchGet(key) ==
    /\ OpsCounted(cacheStats) < MaxCacheOps
    /\ IF cacheUp
       THEN /\ cacheStats' = cacheGet(key).stats
            /\ cacheCall' = CacheCallOf("batchGet", cacheGet(key).outcome, FALSE)
       ELSE /\ cacheCall' = CacheCallOf("batchGet", "raised", FALSE)
            /\ UNCHANGED cacheStats
    /\ UNCHANGED <<cacheUp, cacheEntries, indexLocation, indexZone>>

\* Tile38Service.setLocation: SET in the index, then cacheLocation inside the
\* same command; the error of cacheLocation fails the command
setLocation(value) ==
    /\ OpsCounted(cacheStats) < MaxCacheOps
    /\ indexLocation' = <<value>>
    /\ cacheEntries' = cacheSet("location", value).entries
    /\ cacheStats' = cacheSet("location", value).stats
    /\ cacheCall' = CacheCallOf("setLocation",
                                IF cacheSet("location", value).outcome = "ok"
                                THEN "succeeded" ELSE "failed", FALSE)
    /\ UNCHANGED <<cacheUp, indexZone>>

\* Tile38Service.getLocation: the cached location on a hit; otherwise GET in
\* the index and cacheLocation of what was found, whose error ends in the
\* catch block that returns null
getLocation ==
    /\ OpsCounted(cacheStats) + 1 < MaxCacheOps
    /\ LET looked == cacheGet("location")
       IN IF looked.outcome = "hit" \/ indexLocation = <<>>
          THEN /\ cacheStats' = looked.stats
               /\ cacheCall' = CacheCallOf("getLocation", "succeeded", FALSE)
               /\ UNCHANGED cacheEntries
          ELSE IF cacheUp
          THEN /\ cacheEntries' = [cacheEntries EXCEPT !["location"] = indexLocation]
               /\ cacheStats' = updateStats([looked.stats EXCEPT !.sets = @ + 1])
               /\ cacheCall' = CacheCallOf("getLocation", "succeeded", FALSE)
          ELSE /\ cacheStats' = looked.stats
               /\ cacheCall' = CacheCallOf("getLocation", "nullForStoredLocation", FALSE)
               /\ UNCHANGED cacheEntries
    /\ UNCHANGED <<cacheUp, indexLocation, indexZone>>

\* GeofencingOrchestrator.deleteZone: the zone is deleted in the index, then
\* invalidateZoneCache and invalidatePattern are awaited
OrchestratorDeleteZone ==
    /\ OpsCounted(cacheStats) + 1 < MaxCacheOps
    /\ indexZone' = FALSE
    /\ LET zoneDone == cacheInvalidate("zone")
           patternDone == invalidatePattern(zoneDone.entries, zoneDone.stats)
       IN /\ cacheEntries' = patternDone.entries
          /\ cacheStats' = patternDone.stats
          /\ cacheCall' = CacheCallOf("deleteZone",
                                      IF patternDone.outcome = "ok"
                                      THEN "succeeded" ELSE "failed", FALSE)
    /\ UNCHANGED <<cacheUp, indexLocation>>

\* createZone puts the zone back into the index
OrchestratorCreateZone ==
    /\ ~indexZone
    /\ indexZone' = TRUE
    /\ UNCHANGED <<cacheUp, cacheEntries, cacheStats, cacheCall, indexLocation>>

(***************************************************************************)
(*   LOCATION PATH: GeofencingOrchestrator.updateLocation and              *)
(*   getUserLocation, LocationIndexingService, and the item processing of  *)
(*   BulkLocationProcessor, for one user at one coordinate                 *)
(***************************************************************************)
VARIABLES
    pendingLocations,  \* LocationIndexingService.locationBatch: the updates not yet flushed
    historyLane,       \* the objects of the collection history:<user>, oldest first
    lastSubmitted,     \* the number of the newest update submitted so far
    submissions,       \* how many updates have been submitted
    updateCall,        \* the last update handled and how it ended
    lookupCall         \* the last getUserLocation: what it returned, and what
                       \* the index held when it was called

locVars == <<pendingLocations, historyLane, lastSubmitted, submissions, updateCall, lookupCall>>

MaxSubmissions == 3

MaxVersions == 2

\* config.batchSize of LocationIndexingService (1000 unless configured otherwise)
locationBatchSize == 2

NoUpdateCall == [op |-> "none", outcome |-> "none", events |-> FALSE, retried |-> FALSE,
                 retryCount |-> 0]

NoLookupCall == [called |-> FALSE, returned |-> <<>>, indexAtCall |-> <<>>]

InitLocations ==
    /\ pendingLocations = <<>>
    /\ historyLane = <<>>
    /\ lastSubmitted = 0
    /\ submissions = 0
    /\ updateCall = NoUpdateCall
    /\ lookupCall = NoLookupCall

\* the updates a caller can submit now: the newest one again, or the next one
Submittable ==
    { v \in 1..MaxVersions : v = lastSubmitted \/ v = lastSubmitted + 1 }

\* processBatchChunk: the pipeline sets the point of the user and, for each
\* update of the batch, an object history:<user>:<Date.now()>; in the same
\* millisecond the keys are equal and the later SET replaces the earlier
processBatchChunk(locations, sameMillisecond) ==
    [index |-> <<locations[Len(locations)]>>,
     history |-> IF sameMillisecond
                 THEN Append(historyLane, locations[Len(locations)])
                 ELSE historyLane \o locations]

\* Tile38Service.checkGeofenceEvents: the cached events on a hit; otherwise
\* INTERSECTS (eventsFound: a zone holds the point) and cacheGeofenceEvents,
\* whose error ends in the catch block that returns no events
checkGeofenceEventsCached(entries, stats, eventsFound) ==
    IF cacheUp /\ entries["geofence"] # <<>>
    THEN [entries |-> entries,
          stats |-> updateStats([stats EXCEPT !.hits = @ + 1]),
          events |-> (entries["geofence"] = <<"events">>)]
    ELSE LET missed == updateStats([stats EXCEPT !.misses = @ + 1])
         IN IF cacheUp
            THEN [entries |-> [entries EXCEPT !["geofence"] =
                                  IF eventsFound THEN <<"events">> ELSE <<"noEvents">>],
                  stats |-> updateStats([missed EXCEPT !.sets = @ + 1]),
                  events |-> eventsFound]
            ELSE [entries |-> entries, stats |-> missed, events |-> FALSE]

\* webhookService.processEvent(event): GeofenceWebhookService has no method
\* of this name (its method is processGeofenceEvent), so the call throws a
\* TypeError as soon as there is an event to hand over
ProcessEventThrows(events) == events

\* GeofencingOrchestrator.updateLocation: locationService.updateLocation puts
\* the update on the batch and flushes a full batch; then checkGeofenceEvents,
\* and each event is handed to the webhook service
OrchestratorUpdateLocation(value, eventsFound, flushOk, sameMillisecond) ==
    /\ submissions < MaxSubmissions
    /\ OpsCounted(cacheStats) + 1 < MaxCacheOps
    /\ value \in Submittable
    /\ submissions' = submissions + 1
    /\ lastSubmitted' = value
    /\ LET batch == Append(pendingLocations, value)
           full == Len(batch) >= locationBatchSize
           flushed == processBatchChunk(batch, sameMillisecond)
           checked == checkGeofenceEventsCached(cacheEntries, cacheStats, eventsFound)
       IN /\ pendingLocations' = IF full THEN <<>> ELSE batch
          /\ indexLocation' = IF full /\ flushOk THEN flushed.index ELSE indexLocation
          /\ historyLane' = IF full /\ flushOk THEN flushed.history ELSE historyLane
          /\ IF full /\ ~flushOk
             THEN /\ updateCall' = [op |-> "updateLocation", outcome |-> "failed",
                                    events |-> FALSE, retried |-> FALSE, retryCount |-> 0]
                  /\ UNCHANGED <<cacheEntries, cacheStats>>
             ELSE /\ cacheEntries' = checked.entries
                  /\ cacheStats' = checked.stats
                  /\ updateCall' = [op |-> "updateLocation",
                                    outcome |-> IF ProcessEventThrows(checked.events)
                                                THEN "failed" ELSE "succeeded",
                                    events |-> checked.events, retried |-> FALSE,
                                    retryCount |-> 0]
    /\ UNCHANGED <<cacheUp, cacheCall, indexZone, lookupCall>>

\* the flush timer of LocationIndexingService fires: flushBatch
FlushTimerFires(flushOk, sameMillisecond) ==
    /\ pendingLocations # <<>>
    /\ pendingLocations' = <<>>
    /\ LET flushed == processBatchChunk(pendingLocations, sameMillisecond)
       IN /\ indexLocation' = IF flushOk THEN flushed.index ELSE indexLocation
          /\ historyLane' = IF flushOk THEN flushed.history ELSE historyLane
    /\ UNCHANGED <<lastSubmitted, submissions, updateCall, lookupCall, cacheUp,
                   cacheEntries, cacheStats, cacheCall, indexZone>>

\* GeofencingOrchestrator.getUserLocation: Tile38Service.getLocation
getUserLocation ==
    /\ getLocation
    /\ lookupCall' = [called |-> TRUE,
                      returned |-> IF cacheGet("location").outcome = "hit"
                                   THEN cacheGet("location").value
                                   ELSE IF cacheUp THEN indexLocation ELSE <<>>,
                      indexAtCall |-> indexLocation]
    /\ UNCHANGED <<pendingLocations, historyLane, lastSubmitted, submissions, updateCall>>

(***************************************************************************)
(*                            SPECIFICATIONS                               *)
(***************************************************************************)
vars == <<govVars, poolVars, zoneVars, eventVars, webhookVars, orchVars, bulkVars, cacheVars,
          locVars, zoneCallVars, zoneCreateVars, bulkItemVars, poolErrorVars, bulkTimeVars, whRetryVars, eventFlagVars, poolReadVars, connVars, healthVars, govStopVars>>

Init ==
    /\ InitGovernor
    /\ InitPool
    /\ InitZones
    /\ InitEvents
    /\ InitWebhook
    /\ InitOrch
    /\ InitBulk
    /\ InitCache
    /\ InitLocations
    /\ InitZoneCalls
    /\ InitZoneCreate
    /\ InitBulkItems
    /\ InitGovStop
    /\ InitHealth
    /\ InitConnection
    /\ InitPoolReads
    /\ InitEventFlags
    /\ InitRetries
    /\ InitBulkTime
    /\ InitPoolErrors

\* the variables of the other components, which a component's steps leave alone
govOthers == <<poolVars, zoneVars, eventVars, webhookVars, orchVars, bulkVars, cacheVars, locVars, zoneCallVars, zoneCreateVars, bulkItemVars, poolErrorVars, bulkTimeVars, whRetryVars, eventFlagVars, poolReadVars, connVars, healthVars, govStopVars>>

poolOthers == <<govVars, zoneVars, eventVars, webhookVars, orchVars, bulkVars, cacheVars, locVars, zoneCallVars, zoneCreateVars, bulkItemVars, poolErrorVars, bulkTimeVars, whRetryVars, eventFlagVars, poolReadVars, connVars, healthVars, govStopVars>>

zoneOthers == <<govVars, poolVars, eventVars, webhookVars, orchVars, bulkVars, cacheVars, locVars, zoneCallVars, zoneCreateVars, bulkItemVars, poolErrorVars, bulkTimeVars, whRetryVars, eventFlagVars, poolReadVars, connVars, healthVars, govStopVars>>

orchOthers == <<govVars, poolVars, zoneVars, eventVars, webhookVars, bulkVars, cacheVars, locVars, zoneCallVars, zoneCreateVars, bulkItemVars, poolErrorVars, bulkTimeVars, whRetryVars, eventFlagVars, poolReadVars, connVars, healthVars, govStopVars>>

bulkOthers == <<govVars, poolVars, zoneVars, eventVars, webhookVars, orchVars, cacheVars, locVars, zoneCallVars, zoneCreateVars, bulkItemVars, poolErrorVars, bulkTimeVars, whRetryVars, eventFlagVars, poolReadVars, connVars, healthVars, govStopVars>>

cacheOthers == <<govVars, poolVars, zoneVars, eventVars, webhookVars, orchVars, bulkVars, locVars, zoneCallVars, zoneCreateVars, bulkItemVars, poolErrorVars, bulkTimeVars, whRetryVars, eventFlagVars, poolReadVars, connVars, healthVars, govStopVars>>

locOthers == <<govVars, poolVars, zoneVars, eventVars, webhookVars, orchVars, bulkVars, zoneCallVars, zoneCreateVars, bulkItemVars, poolErrorVars, bulkTimeVars, whRetryVars, eventFlagVars, poolReadVars, connVars, healthVars, govStopVars>>

webhookOthers == <<govVars, poolVars, zoneVars, eventVars, orchVars, bulkVars, cacheVars, locVars, zoneCallVars, zoneCreateVars, bulkItemVars, poolErrorVars, bulkTimeVars, whRetryVars, eventFlagVars, poolReadVars, connVars, healthVars, govStopVars>>

eventOthers == <<govVars, poolVars, zoneVars, webhookVars, orchVars, bulkVars, cacheVars, locVars, zoneCallVars, zoneCreateVars, bulkItemVars, poolErrorVars, bulkTimeVars, whRetryVars, eventFlagVars, poolReadVars, connVars, healthVars, govStopVars>>

NextGovernor ==
    \/ \E p \in 0..MaxPriority : Execute(p) /\ UNCHANGED govOthers
    \/ \E avail \in BOOLEAN : ProcessQueueDispatch(avail) /\ UNCHANGED govOthers
    \/ ProcessQueueRateLimited /\ UNCHANGED govOthers
    \/ \E req \in lbRunning : OperationResolved(req) /\ UNCHANGED govOthers
    \/ \E req \in lbRunning : OperationRejected(req) /\ UNCHANGED govOthers
    \/ \E req \in lbBackoff : RetryTimerFires(req) /\ UNCHANGED govOthers
    \/ cleanupRequestWindow /\ UNCHANGED govOthers
    \/ LbTick /\ UNCHANGED govOthers

SpecGovernor == Init /\ [][NextGovernor]_vars

NextPool ==
    \/ PrimaryConnectionChanges /\ UNCHANGED poolOthers
    \/ \E i \in Replicas : ReplicaConnectionChanges(i) /\ UNCHANGED poolOthers
    \/ ExecuteWriteCall /\ UNCHANGED poolOthers
    \/ \E opOk \in BOOLEAN : ExecuteWriteAttempt(opOk) /\ UNCHANGED poolOthers
    \/ ExecuteWriteDelayElapsed /\ UNCHANGED poolOthers

SpecPool == Init /\ [][NextPool]_vars

poolErrorOthers == <<govVars, zoneVars, eventVars, webhookVars, orchVars, bulkVars, cacheVars, locVars, zoneCallVars, zoneCreateVars, bulkItemVars, bulkTimeVars, whRetryVars, eventFlagVars, poolReadVars, connVars, healthVars, govStopVars>>

\* executeWrite with operations that fail for different reasons
NextPoolErrors ==
    \/ PrimaryConnectionChanges /\ UNCHANGED poolOthers
    \/ \E i \in Replicas : ReplicaConnectionChanges(i) /\ UNCHANGED poolOthers
    \/ ExecuteWriteCalled /\ UNCHANGED poolErrorOthers
    \/ ExecuteWriteAttemptResolves /\ UNCHANGED poolErrorOthers
    \/ \E error \in OperationErrors : ExecuteWriteAttemptThrows(error) /\ UNCHANGED poolErrorOthers
    \/ ExecuteWriteDelayElapsed /\ UNCHANGED poolOthers

SpecPoolErrors == Init /\ [][NextPoolErrors]_vars

NextZones ==
    \/ \E c \in Callers, coordinates \in ZonePolys :
          CreateZoneCheck(c, coordinates) /\ UNCHANGED zoneOthers
    \/ \E c \in Callers, ok \in BOOLEAN : StoreZone(c, ok) /\ UNCHANGED zoneOthers
    \/ \E c \in Callers, id \in ZoneIds, coordinates \in ZonePolys \cup {<<>>},
          status \in ZoneStatuses \cup {"none"} :
          UpdateZoneGet(c, id, coordinates, status) /\ UNCHANGED zoneOthers
    \/ \E c \in Callers : UpdateZoneCheck(c) /\ UNCHANGED zoneOthers
    \/ \E c \in Callers, id \in ZoneIds : DeleteZoneGet(c, id) /\ UNCHANGED zoneOthers
    \/ \E c \in Callers, ok \in BOOLEAN : DeleteZoneDel(c, ok) /\ UNCHANGED zoneOthers
    \/ \E id \in ZoneIds : ZoneCacheExpires(id) /\ UNCHANGED zoneOthers

SpecZones == Init /\ [][NextZones]_vars

\* the zone manager called by one administrator, one call at a time, who
\* creates, moves and deletes zones
ZoneAdmin == CHOOSE c \in Callers : TRUE

AdminPolys == {PolyA, PolyC}

NextEvents ==
    \/ \E u \in Users, p \in Positions, lookupOk \in BOOLEAN, storeOk \in BOOLEAN :
          UpdateLocation(u, p, lookupOk, storeOk) /\ UNCHANGED eventOthers
    \/ FlushBatch /\ UNCHANGED eventOthers
    \/ \E u \in Users, p \in Positions : GeofenceCacheExpires(u, p) /\ UNCHANGED eventOthers
    \/ SweepGetActiveZones /\ UNCHANGED eventOthers
    \/ \E zone \in sweepZones : SweepZone(zone) /\ UNCHANGED eventOthers
    \/ \E coordinates \in AdminPolys :
          CreateZoneCheck(ZoneAdmin, coordinates) /\ UNCHANGED zoneOthers
    \/ \E ok \in BOOLEAN : StoreZone(ZoneAdmin, ok) /\ UNCHANGED zoneOthers
    \/ \E id \in ZoneIds, coordinates \in AdminPolys :
          UpdateZoneGet(ZoneAdmin, id, coordinates, "none") /\ UNCHANGED zoneOthers
    \/ UpdateZoneCheck(ZoneAdmin) /\ UNCHANGED zoneOthers
    \/ \E id \in ZoneIds : DeleteZoneGet(ZoneAdmin, id) /\ UNCHANGED zoneOthers
    \/ \E ok \in BOOLEAN : DeleteZoneDel(ZoneAdmin, ok) /\ UNCHANGED zoneOthers

SpecEvents == Init /\ [][NextEvents]_vars

\* the webhook configurations registered in the matching specification ...
MatchConfigs ==
    { WebhookConfig(enabled, {"inside"}, zoneIds, zoneTypes, "") :
        enabled \in BOOLEAN,
        zoneIds \in {Absent, Filter({}), Filter({1})},
        zoneTypes \in {Absent, Filter({"safe"})} }

\* ... and in the delivery specification
SecretConfigs ==
    { WebhookConfig(TRUE, {"inside", "enter"}, Absent, Absent, secret) :
        secret \in {"", "k1", "k2"} }

\* in the matching specification the entries are taken off the queue and
\* dropped, as for an event whose zone is gone
NextMatching ==
    \/ \E id \in WebhookIds, config \in MatchConfigs :
          registerWebhook(id, config) /\ UNCHANGED webhookOthers
    \/ \E id \in WebhookIds : removeWebhook(id) /\ UNCHANGED webhookOthers
    \/ \E event \in WebhookEvents : processGeofenceEvent(event) /\ UNCHANGED webhookOthers
    \/ processWebhookQueue /\ UNCHANGED webhookOthers
    \/ \E i \in 1..MaxDeliveryQueue, eager \in BOOLEAN :
          deliverEventToWebhooks(i, FALSE, eager) /\ UNCHANGED webhookOthers
    \/ batchSettled /\ UNCHANGED webhookOthers

SpecMatching == Init /\ [][NextMatching]_vars

NextDelivery ==
    \/ \E id \in WebhookIds, config \in SecretConfigs :
          registerWebhook(id, config) /\ UNCHANGED webhookOthers
    \/ processGeofenceEvent(EventInside) /\ UNCHANGED webhookOthers
    \/ processWebhookQueue /\ UNCHANGED webhookOthers
    \/ \E i \in 1..MaxDeliveryQueue, zoneFound \in BOOLEAN, eager \in BOOLEAN :
          deliverEventToWebhooks(i, zoneFound, eager) /\ UNCHANGED webhookOthers
    \/ \E i \in 1..MaxDeliveryQueue, w \in WebhookIds, ok \in BOOLEAN, rt \in ResponseTimes :
          postSettles(i, w, ok, rt) /\ UNCHANGED webhookOthers
    \/ \E i \in 1..MaxDeliveryQueue, w \in WebhookIds :
          retryDelayElapsed(i, w) /\ UNCHANGED webhookOthers
    \/ batchSettled /\ UNCHANGED webhookOthers

SpecDelivery == Init /\ [][NextDelivery]_vars

\* the delivery specification with calls of testWebhook
NextTestWebhook ==
    \/ \E id \in WebhookIds, config \in SecretConfigs :
          registerWebhook(id, config) /\ UNCHANGED webhookOthers
    \/ processGeofenceEvent(EventInside) /\ UNCHANGED webhookOthers
    \/ processWebhookQueue /\ UNCHANGED webhookOthers
    \/ \E i \in 1..MaxDeliveryQueue, zoneFound \in BOOLEAN :
          deliverEventToWebhooks(i, zoneFound, TRUE) /\ UNCHANGED webhookOthers
    \/ \E i \in 1..MaxDeliveryQueue, w \in WebhookIds, ok \in BOOLEAN, rt \in ResponseTimes :
          postSettles(i, w, ok, rt) /\ UNCHANGED webhookOthers
    \/ \E i \in 1..MaxDeliveryQueue, w \in WebhookIds :
          retryDelayElapsed(i, w) /\ UNCHANGED webhookOthers
    \/ batchSettled /\ UNCHANGED webhookOthers
    \/ \E id \in WebhookIds : testWebhook(id) /\ UNCHANGED webhookOthers
    \/ \E ok \in BOOLEAN, rt \in ResponseTimes :
          testPostSettles(ok, rt) /\ UNCHANGED webhookOthers
    \/ testRetryDelayElapsed /\ UNCHANGED webhookOthers

SpecTestWebhook == Init /\ [][NextTestWebhook]_vars

NextOrch ==
    \/ \E config \in OrchestratorConfigs : Construct(config) /\ UNCHANGED orchOthers
    \/ \E settled \in BOOLEAN : SetupServicesResumes(settled) /\ UNCHANGED orchOthers
    \/ \E op \in PublicOps : CallPublic(op) /\ UNCHANGED orchOthers
    \/ ShutdownCall /\ UNCHANGED orchOthers
    \/ \E ok \in BOOLEAN : ShutdownStep(ok) /\ UNCHANGED orchOthers

SpecOrch == Init /\ [][NextOrch]_vars

BulkItemSettles ==
    \E i \in 1..bulkBatchSize : \E outcome \in ItemOutcomes : ItemSettles(i, outcome)

\* callers submit updates until shutdown() has been called
NextBulk ==
    \/ bulkShutdownPc = "idle" /\ queueLocationUpdate /\ UNCHANGED bulkOthers
    \/ clearQueue /\ UNCHANGED bulkOthers
    \/ BulkShutdown /\ UNCHANGED bulkOthers
    \/ BatchTimerFires /\ UNCHANGED bulkOthers
    \/ BulkItemSettles /\ UNCHANGED bulkOthers
    \/ BatchSettled /\ UNCHANGED bulkOthers
    \/ checkQueue /\ UNCHANGED bulkOthers

SpecBulk == Init /\ [][NextBulk]_vars

\* a pending timer fires, the promises of a batch settle and waitForQueueEmpty
\* keeps polling; nobody is obliged to call the processor
SpecBulkFair ==
    /\ SpecBulk
    /\ WF_vars(BatchTimerFires /\ UNCHANGED bulkOthers)
    /\ WF_vars(BulkItemSettles /\ UNCHANGED bulkOthers)
    /\ WF_vars(BatchSettled /\ UNCHANGED bulkOthers)
    /\ WF_vars(checkQueue /\ UNCHANGED bulkOthers)

NextCache ==
    \/ CacheBackendChanges /\ UNCHANGED cacheOthers
    \/ \E key \in CacheKeys : CacheEntryExpires(key) /\ UNCHANGED cacheOthers
    \/ \E key \in CacheKeys : \E value \in LocationValues :
          CacheStoreCall(key, value) /\ UNCHANGED cacheOthers
    \/ \E key \in CacheKeys : CacheLookupCall(key) /\ UNCHANGED cacheOthers
    \/ \E key \in CacheKeys : CacheInvalidateCall(key) /\ UNCHANGED cacheOthers
    \/ \E value \in LocationValues : batchSet(value) /\ UNCHANGED cacheOthers
    \/ \E key \in CacheKeys : batchGet(key) /\ UNCHANGED cacheOthers
    \/ \E value \in LocationValues : setLocation(value) /\ UNCHANGED cacheOthers
    \/ getLocation /\ UNCHANGED cacheOthers
    \/ OrchestratorDeleteZone /\ UNCHANGED cacheOthers
    \/ OrchestratorCreateZone /\ UNCHANGED cacheOthers

SpecCache == Init /\ [][NextCache]_vars

\* the location path with the cache: updates in real time, the
\* flush timer, lookups, and a cache backend that fails and recovers
NextLocations ==
    \/ \E value \in 1..MaxVersions, eventsFound \in BOOLEAN, flushOk \in BOOLEAN,
          sameMillisecond \in BOOLEAN :
          OrchestratorUpdateLocation(value, eventsFound, flushOk, sameMillisecond)
              /\ UNCHANGED locOthers
    \/ \E flushOk \in BOOLEAN, sameMillisecond \in BOOLEAN :
          FlushTimerFires(flushOk, sameMillisecond) /\ UNCHANGED locOthers
    \/ getUserLocation /\ UNCHANGED locOthers
    \/ \E key \in CacheKeys : CacheEntryExpires(key) /\ UNCHANGED cacheOthers
    \/ CacheBackendChanges /\ UNCHANGED cacheOthers

SpecLocations == Init /\ [][NextLocations]_vars

\* the webhook registered in the update-path specification
PlainConfig == WebhookConfig(TRUE, {"inside", "enter"}, Absent, Absent, "")

\* updates in real time while the dispatcher delivers events of
\* the sweep to endpoints that may fail; the index and the cache backend work
NextUpdatePath ==
    \/ \E id \in WebhookIds : registerWebhook(id, PlainConfig) /\ UNCHANGED webhookOthers
    \/ processGeofenceEvent(EventInside) /\ UNCHANGED webhookOthers
    \/ processWebhookQueue /\ UNCHANGED webhookOthers
    \/ \E i \in 1..MaxDeliveryQueue :
          deliverEventToWebhooks(i, TRUE, TRUE) /\ UNCHANGED webhookOthers
    \/ \E i \in 1..MaxDeliveryQueue, w \in WebhookIds, ok \in BOOLEAN, rt \in ResponseTimes :
          postSettles(i, w, ok, rt) /\ UNCHANGED webhookOthers
    \/ \E i \in 1..MaxDeliveryQueue, w \in WebhookIds :
          retryDelayElapsed(i, w) /\ UNCHANGED webhookOthers
    \/ batchSettled /\ UNCHANGED webhookOthers
    \/ \E value \in 1..MaxVersions, eventsFound \in BOOLEAN :
          OrchestratorUpdateLocation(value, eventsFound, TRUE, FALSE) /\ UNCHANGED locOthers
    \/ FlushTimerFires(TRUE, FALSE) /\ UNCHANGED locOthers

SpecUpdatePath == Init /\ [][NextUpdatePath]_vars

zoneCallOthers == <<govVars, poolVars, eventVars, webhookVars, orchVars, bulkVars, cacheVars,
                    locVars, zoneCreateVars, bulkItemVars, poolErrorVars, bulkTimeVars, whRetryVars, eventFlagVars, poolReadVars, connVars, healthVars, govStopVars>>

\* one administrator who creates and deletes zones, one call at a time
NextZoneCalls ==
    \/ \E coordinates \in ZonePolys :
          CreateZoneCheck(ZoneAdmin, coordinates) /\ UNCHANGED zoneOthers
    \/ \E ok \in BOOLEAN : StoreZone(ZoneAdmin, ok) /\ UNCHANGED zoneOthers
    \/ \E id \in ZoneIds : DeleteZoneGetReturns(ZoneAdmin, id) /\ UNCHANGED zoneCallOthers
    \/ \E ok \in BOOLEAN : DeleteZoneDelReturns(ZoneAdmin, ok) /\ UNCHANGED zoneCallOthers
    \/ \E id \in ZoneIds : ZoneCacheExpires(id) /\ UNCHANGED zoneOthers

SpecZoneCalls == Init /\ [][NextZoneCalls]_vars

zoneCreateOthers == <<govVars, poolVars, eventVars, webhookVars, orchVars, bulkVars, cacheVars,
                      locVars, zoneCallVars, bulkItemVars, poolErrorVars, bulkTimeVars, whRetryVars, eventFlagVars, poolReadVars, connVars, healthVars, govStopVars>>

\* the requests of up to five vertices
ShortRequestPolys == { request \in RequestPolys : Len(request) <= 6 }

\* one administrator who creates zones from requests and reads them back
NextZoneCreate ==
    \/ \E request \in ShortRequestPolys :
          CreateZoneValidates(ZoneAdmin, request) /\ UNCHANGED zoneCreateOthers
    \/ \E ok \in BOOLEAN : StoreZoneCreated(ZoneAdmin, ok) /\ UNCHANGED zoneCreateOthers
    \/ \E id \in ZoneIds : GetZoneReturns(id) /\ UNCHANGED zoneCreateOthers
    \/ \E id \in ZoneIds : ZoneCacheExpires(id) /\ UNCHANGED zoneOthers

SpecZoneCreate == Init /\ [][NextZoneCreate]_vars

\* one administrator who creates zones from requests of every size
NextZoneValidation ==
    \/ \E request \in RequestPolys :
          CreateZoneValidates(ZoneAdmin, request) /\ UNCHANGED zoneCreateOthers
    \/ \E ok \in BOOLEAN : StoreZoneCreated(ZoneAdmin, ok) /\ UNCHANGED zoneCreateOthers

SpecZoneValidation == Init /\ [][NextZoneValidation]_vars

\* a second caller, who looks zones up
ZoneReader == CHOOSE c \in Callers : c # ZoneAdmin

\* one administrator who creates and deletes zones while a second caller looks
\* zones up
NextZoneLookup ==
    \/ \E coordinates \in ZonePolys :
          CreateZoneCheck(ZoneAdmin, coordinates) /\ UNCHANGED zoneOthers
    \/ \E ok \in BOOLEAN : StoreZone(ZoneAdmin, ok) /\ UNCHANGED zoneOthers
    \/ \E id \in ZoneIds : DeleteZoneGetReturns(ZoneAdmin, id) /\ UNCHANGED zoneCallOthers
    \/ \E ok \in BOOLEAN : DeleteZoneDelReturns(ZoneAdmin, ok) /\ UNCHANGED zoneCallOthers
    \/ \E id \in ZoneIds : GetZoneRead(ZoneReader, id) /\ UNCHANGED zoneOthers
    \/ GetZoneCaches(ZoneReader) /\ UNCHANGED zoneOthers
    \/ \E id \in ZoneIds : ZoneCacheExpires(id) /\ UNCHANGED zoneOthers

SpecZoneLookup == Init /\ [][NextZoneLookup]_vars

bulkItemOthers == <<govVars, poolVars, zoneVars, eventVars, webhookVars, orchVars, cacheVars,
                    locVars, zoneCallVars, zoneCreateVars, poolErrorVars, bulkTimeVars, whRetryVars, eventFlagVars, poolReadVars, connVars, healthVars, govStopVars>>

BulkItemSettlesCounted ==
    \E i \in 1..bulkBatchSize : \E outcome \in ItemOutcomes : ItemSettlesCounted(i, outcome)

\* the bulk processor with the account of its locations; callers submit
\* updates until shutdown() has been called
NextBulkItems ==
    \/ bulkShutdownPc = "idle" /\ QueueLocationUpdateAccepted /\ UNCHANGED bulkItemOthers
    \/ ClearQueueCounted /\ UNCHANGED bulkItemOthers
    \/ BulkShutdown /\ UNCHANGED <<bulkItemVars, bulkItemOthers>>
    \/ BatchTimerStartsBatch /\ UNCHANGED bulkItemOthers
    \/ BulkItemSettlesCounted /\ UNCHANGED bulkItemOthers
    \/ BatchSettledCounted /\ UNCHANGED bulkItemOthers
    \/ checkQueue /\ UNCHANGED <<bulkItemVars, bulkItemOthers>>

SpecBulkItems == Init /\ [][NextBulkItems]_vars

\* a pending timer fires, the promises of a batch settle and waitForQueueEmpty
\* keeps polling; nobody is obliged to call the processor
SpecBulkItemsFair ==
    /\ SpecBulkItems
    /\ WF_vars(BatchTimerStartsBatch /\ UNCHANGED bulkItemOthers)
    /\ WF_vars(BulkItemSettlesCounted /\ UNCHANGED bulkItemOthers)
    /\ WF_vars(BatchSettledCounted /\ UNCHANGED bulkItemOthers)
    /\ WF_vars(checkQueue /\ UNCHANGED <<bulkItemVars, bulkItemOthers>>)

\* the governor with clearQueue / shutdown and with the failure handler that
\* throws
NextGovernorShutdown ==
    \/ \E p \in 0..MaxPriority : Execute(p) /\ UNCHANGED govOthers
    \/ \E avail \in BOOLEAN : ProcessQueueDispatch(avail) /\ UNCHANGED govOthers
    \/ ProcessQueueRateLimited /\ UNCHANGED govOthers
    \/ \E req \in lbRunning : OperationResolved(req) /\ UNCHANGED govOthers
    \/ \E req \in lbRunning : OperationRejected(req) /\ UNCHANGED govOthers
    \/ \E req \in lbRunning : HandleRequestFailureThrows(req) /\ UNCHANGED govOthers
    \/ \E req \in lbBackoff : RetryTimerFires(req) /\ UNCHANGED govOthers
    \/ LbClearQueue /\ UNCHANGED govOthers
    \/ cleanupRequestWindow /\ UNCHANGED govOthers
    \/ LbTick /\ UNCHANGED govOthers

SpecGovernorShutdown == Init /\ [][NextGovernorShutdown]_vars

bulkTimeOthers == <<govVars, poolVars, zoneVars, eventVars, webhookVars, orchVars, cacheVars, locVars, zoneCallVars, zoneCreateVars, bulkItemVars, poolErrorVars, whRetryVars, eventFlagVars, poolReadVars, connVars, healthVars, govStopVars>>

\* the bulk processor over time, with items arriving at any moment
NextBulkTime ==
    \/ QueueLocationUpdateTimed /\ UNCHANGED bulkTimeOthers
    \/ BatchTimerFiresOnTime /\ UNCHANGED bulkTimeOthers
    \/ \E i \in 1..bulkBatchSize : \E outcome \in ItemOutcomes :
          ItemSettlesTimed(i, outcome) /\ UNCHANGED bulkTimeOthers
    \/ BatchSettledTimed /\ UNCHANGED bulkTimeOthers
    \/ BulkTick /\ UNCHANGED bulkTimeOthers

SpecBulkTime == Init /\ [][NextBulkTime]_vars

whRetryOthers == <<govVars, poolVars, zoneVars, eventVars, orchVars, bulkVars, cacheVars, locVars, zoneCallVars, zoneCreateVars, bulkItemVars, poolErrorVars, bulkTimeVars, eventFlagVars, poolReadVars, connVars, healthVars, govStopVars>>

\* the one webhook registered where single deliveries are followed
Subscriber == CHOOSE w \in WebhookIds : TRUE

\* the deliveries of queued events to one webhook, POST by POST
NextRetries ==
    \/ \E config \in SecretConfigs :
          registerWebhook(Subscriber, config) /\ UNCHANGED webhookOthers
    \/ processGeofenceEvent(EventInside) /\ UNCHANGED webhookOthers
    \/ ProcessWebhookQueueLogged /\ UNCHANGED whRetryOthers
    \/ \E i \in 1..MaxDeliveryQueue :
          deliverEventToWebhooks(i, TRUE, TRUE) /\ UNCHANGED webhookOthers
    \/ \E i \in 1..MaxDeliveryQueue, ok \in BOOLEAN, rt \in ResponseTimes :
          PostSettlesLogged(i, Subscriber, ok, rt) /\ UNCHANGED whRetryOthers
    \/ \E i \in 1..MaxDeliveryQueue : retryDelayElapsed(i, Subscriber) /\ UNCHANGED webhookOthers
    \/ batchSettled /\ UNCHANGED webhookOthers

SpecRetries == Init /\ [][NextRetries]_vars

\* one webhook that is registered, disabled and removed while events are
\* queued and delivered
NextUnsubscribe ==
    \/ \E config \in SecretConfigs :
          registerWebhook(Subscriber, config) /\ UNCHANGED webhookOthers
    \/ removeWebhook(Subscriber) /\ UNCHANGED webhookOthers
    \/ disableWebhook(Subscriber) /\ UNCHANGED webhookOthers
    \/ processGeofenceEvent(EventInside) /\ UNCHANGED webhookOthers
    \/ processWebhookQueue /\ UNCHANGED webhookOthers
    \/ \E i \in 1..MaxDeliveryQueue :
          deliverEventToWebhooks(i, TRUE, TRUE) /\ UNCHANGED webhookOthers
    \/ \E i \in 1..MaxDeliveryQueue, ok \in BOOLEAN, rt \in ResponseTimes :
          postSettles(i, Subscriber, ok, rt) /\ UNCHANGED webhookOthers
    \/ \E i \in 1..MaxDeliveryQueue : retryDelayElapsed(i, Subscriber) /\ UNCHANGED webhookOthers
    \/ batchSettled /\ UNCHANGED webhookOthers

SpecUnsubscribe == Init /\ [][NextUnsubscribe]_vars

poolReadOthers == <<govVars, zoneVars, eventVars, webhookVars, orchVars, bulkVars, cacheVars, locVars, zoneCallVars, zoneCreateVars, bulkItemVars, poolErrorVars, bulkTimeVars, whRetryVars, eventFlagVars, connVars, healthVars, govStopVars>>

\* the connections of the pool come and go while read handles are asked for
NextPoolReads ==
    \/ PrimaryConnectionChanges /\ UNCHANGED poolOthers
    \/ \E i \in Replicas : ReplicaConnectionChanges(i) /\ UNCHANGED poolOthers
    \/ GetReadConnectionCalled /\ UNCHANGED poolReadOthers

SpecPoolReads == Init /\ [][NextPoolReads]_vars

connOthers == <<govVars, poolVars, zoneVars, eventVars, webhookVars, orchVars, bulkVars, cacheVars, locVars, zoneCallVars, zoneCreateVars, bulkItemVars, poolErrorVars, bulkTimeVars, whRetryVars, eventFlagVars, poolReadVars, healthVars, govStopVars>>

\* one connection that is opened, lost and reopened, and probed
NextConnection ==
    \/ \E th \in ConnThreads : ClientEvent(th) /\ UNCHANGED connOthers
    \/ \E th \in ConnThreads : ReconnectWaitElapsed(th) /\ UNCHANGED connOthers
    \/ \E th \in ConnThreads, ok \in BOOLEAN : PingSettles(th, ok) /\ UNCHANGED connOthers
    \/ \E th \in ConnThreads : BackoffElapsed(th) /\ UNCHANGED connOthers
    \/ \E ok \in BOOLEAN : HealthProbe(ok) /\ UNCHANGED connOthers

SpecConnection == Init /\ [][NextConnection]_vars

healthOthers == <<govVars, poolVars, zoneVars, eventVars, webhookVars, orchVars, bulkVars, cacheVars, locVars, zoneCallVars, zoneCreateVars, bulkItemVars, poolErrorVars, bulkTimeVars, whRetryVars, eventFlagVars, poolReadVars, connVars, govStopVars>>

\* the health scores of the governor's connections under successes,
\* failures and health checks
NextHealth ==
    \/ \E c \in HealthConns, success \in BOOLEAN, responseTime \in HealthResponseTimes :
           updateConnectionHealth(c, success, responseTime) /\ UNCHANGED healthOthers
    \/ \E unhealthy \in SUBSET HealthConns :
           performHealthCheck(unhealthy) /\ UNCHANGED healthOthers

SpecHealth == Init /\ [][NextHealth]_vars

govStopOthers == <<poolVars, zoneVars, eventVars, webhookVars, orchVars, bulkVars, cacheVars, locVars, zoneCallVars, zoneCreateVars, bulkItemVars, poolErrorVars, bulkTimeVars, whRetryVars, eventFlagVars, poolReadVars, connVars, healthVars>>

\* the governor from its construction to after its shutdown: the dispatch
\* loop, the window cleanup and the retry timers are scheduled as before
NextGovernorStop ==
    \/ \E p \in 0..MaxPriority : Execute(p) /\ UNCHANGED govOthers
    \/ \E avail \in BOOLEAN : ProcessQueueDispatch(avail) /\ UNCHANGED govOthers
    \/ ProcessQueueRateLimited /\ UNCHANGED govOthers
    \/ \E req \in lbRunning : OperationResolved(req) /\ UNCHANGED govOthers
    \/ \E req \in lbRunning : OperationRejected(req) /\ UNCHANGED govOthers
    \/ \E req \in lbRunning : HandleRequestFailureThrows(req) /\ UNCHANGED govOthers
    \/ \E req \in lbBackoff : RetryTimerFires(req) /\ UNCHANGED govOthers
    \/ LbShutdown /\ UNCHANGED govStopOthers
    \/ cleanupRequestWindow /\ UNCHANGED govOthers
    \/ LbTick /\ UNCHANGED govOthers

SpecGovernorStop == Init /\ [][NextGovernorStop]_vars
(***************************************************************************)
(*                                CLAIMS                                   *)
(***************************************************************************)

\* number of operations started in the rolling window that ends now
StartsInWindow == Len(WindowFilter(lbStarts, lbNow))

C2_NoActiveOverlap ==
    \A z1, z2 \in StoredZones :
        (z1.id # z2.id /\ z1.status = "active" /\ z2.status = "active")
            => ~polygonsOverlap(z1.coordinates, z2.coordinates)

\* C4: every GeofenceEvent that is emitted, by the periodic sweep or by the
\* per-update check, also one served from the event cache, names a user
\* whose location was inside the polygon of the event's zone at the
\* event's timestamp.
C4_EventInsideZone == \A e \in emitted : e.insideAtTimestamp

\* what the contract calls a match of a webhook and an event
ContractMatch(webhook, event) ==
    /\ webhook.enabled
    /\ event.eventType \in webhook.eventTypes
    /\ (webhook.zoneIds.values = {} \/ event.zoneId \in webhook.zoneIds.values)
    /\ (webhook.zoneTypes.values = {} \/ event.zoneType \in webhook.zoneTypes.values)

\* C5: an event is queued for delivery to a webhook if and only if the
\* webhook is enabled, the event's type is in its eventTypes, its zoneIds
\* filter is empty or contains the event's zone, and its zoneTypes filter is
\* empty or contains the event's zone type.  (Stated for the event handled
\* last; the webhooks are as they were when it was handled.)
C5_QueuedIffMatch ==
    whProcessed.event # NoEvent =>
        \A w \in WebhookIds :
            webhooks[w] # NoWebhook =>
                ((w \in whProcessed.queuedFor) <=> ContractMatch(webhooks[w], whProcessed.event))

\* C6: for every successful delivery to a webhook that has a secret, the
\* signature in the delivered body is the HMAC of that webhook's own secret
\* over the event.
C6_OwnSignature ==
    (whDelivered # NoDelivery /\ whDelivered.secret # "") =>
        whDelivered.signature = generateSignature(whDelivered.event, whDelivered.secret)

NotInitializedErrors == {"NotInitialized", "BulkProcessorNotInitialized"}

\* C7: every public operation of the orchestrator that is invoked before
\* wiring has completed fails with a not-initialized error.
C7_NotInitializedGuard ==
    (orchCall.op # "none" /\ ~orchCall.initialized) =>
        orchCall.outcome \in NotInitializedErrors

\* the position of a component in the log of shutdown(), 0 when it is not there
StoppedAt(service) ==
    IF \E i \in 1..Len(shutdownLog) : shutdownLog[i] = service
    THEN CHOOSE i \in 1..Len(shutdownLog) : shutdownLog[i] = service
    ELSE 0

\* a component that shutdown() was to stop has been stopped before position n
StoppedBefore(service, n) ==
    service \in orchServices => (StoppedAt(service) # 0 /\ StoppedAt(service) < n)

\* C9 as stated: the bulk processor is stopped first, then the webhook
\* dispatcher, then the governor, and only then the connection pool.
C9_OrderAsStated ==
    shutdownWired =>
        /\ StoppedAt("webhookService") # 0 =>
                StoppedBefore("bulkProcessor", StoppedAt("webhookService"))
        /\ StoppedAt("loadBalancer") # 0 =>
                StoppedBefore("webhookService", StoppedAt("loadBalancer"))
        /\ StoppedAt("connectionManager") # 0 =>
                StoppedBefore("loadBalancer", StoppedAt("connectionManager"))

\* the four components of the claim: bulk processor, governor, webhook
\* dispatcher, connection pool
AmendedOrder == <<"bulkProcessor", "loadBalancer", "webhookService", "connectionManager">>

StopRank(service) ==
    CHOOSE i \in 1..Len(AmendedOrder) : AmendedOrder[i] = service

OrderedComponents == {AmendedOrder[i] : i \in 1..Len(AmendedOrder)}

\* C9 amended: orchestrator shutdown stops the bulk processor first, then the
\* governor, then the webhook dispatcher, and only then closes the connection
\* pool; a shutdown that is called once wiring has completed skips none of
\* the components that exist.
C9_OrderAmended ==
    /\ \A a \in OrderedComponents : \A b \in OrderedComponents :
          (StoppedAt(a) # 0 /\ StoppedAt(b) # 0 /\ StopRank(a) < StopRank(b))
              => StoppedAt(a) < StoppedAt(b)
    /\ shutdownWired =>
          \A b \in OrderedComponents : StoppedAt(b) # 0 =>
              \A a \in OrderedComponents :
                  StopRank(a) < StopRank(b) => StoppedBefore(a, StoppedAt(b))

\* C9 witness: a shutdown of the fully wired orchestrator, with the governor
\* enabled, has stopped all four components
C9_Witness ==
    /\ shutdownWired
    /\ shutdownPc = ShutdownDone
    /\ StoppedAt("bulkProcessor") # 0
    /\ StoppedAt("loadBalancer") # 0
    /\ StoppedAt("webhookService") # 0
    /\ StoppedAt("connectionManager") # 0

\* C8: shutdown completes in bounded time from every reachable state, also
\* when the bulk queue still holds items that wait for the time trigger.
C8_ShutdownCompletes == (bulkShutdownPc = "waiting") ~> (bulkShutdownPc = "done")

CacheOperations == {"store", "lookup", "invalidate", "batchSet", "batchGet"}

CacheUsers == {"setLocation", "getLocation", "deleteZone"}

\* C10: when the cache backend fails, no cache operation raises an error to
\* its caller, a failed lookup is counted and returned as a miss, and the
\* location, zone or delete operation that used the cache still succeeds.
C10_CacheFailureNeverPropagates ==
    cacheCall.backendFailed =>
        /\ cacheCall.op \in CacheOperations => cacheCall.outcome # "raised"
        /\ cacheCall.op = "lookup" =>
                (cacheCall.outcome = "miss" /\ cacheCall.countedMiss)
        /\ cacheCall.op \in CacheUsers => cacheCall.outcome = "succeeded"

\* C13: a deleteZone(id) that follows a deleteZone(id) succeeds: it raises
\* no error and changes nothing.
C13_SecondDeleteSucceeds ==
    deleteResult.repeated => (deleteResult.outcome = "succeeded" /\ ~deleteResult.changed)

\* C15: testWebhook leaves the delivery statistics (delivered count, failure
\* count, average delivery time) unchanged, whether the test delivery
\* succeeds or fails.
C15_TestLeavesStats ==
    whTest.pc \in {"delivered", "failed"} => whTest.after = whTest.before

C12_NoOlderThanIndex ==
    (lookupCall.called /\ lookupCall.returned # <<>> /\ lookupCall.indexAtCall # <<>>)
        => lookupCall.returned[1] >= lookupCall.indexAtCall[1]

\* C17: submitting the same location update twice leaves the same final
\* state as submitting it once: the history lane holds an update once, however
\* often it was submitted.
C17_UpdateOnceInHistory ==
    \A i \in 1..Len(historyLane) : \A j \in 1..Len(historyLane) :
        historyLane[i] = historyLane[j] => i = j

\* the ring a request describes, closed: the first point repeated at the end
\* unless the ring is closed already
AutoClosed(request) ==
    IF request[1] = request[Len(request)] THEN request ELSE request \o <<request[1]>>

VertexCount(request) ==
    IF Len(request) > 1 /\ request[1] = request[Len(request)]
    THEN Len(request) - 1 ELSE Len(request)

\* C16: createZone refuses a polygon for its shape only when it has fewer
\* than 3 or more than 100 vertices: every otherwise valid polygon of 3 to
\* 100 vertices passes validation
C16_ThreeToHundredVerticesAccepted ==
    createResult.outcome = "rejected" =>
        VertexCount(createResult.request) \notin 3..100

\* C18: the reported hitRate is hits / (hits + misses) once a lookup has been
\* counted, and the number 0 before that, also after stores and deletes
C18_HitRateDefined ==
    LET lookups == cacheStats.hits + cacheStats.misses
    IN /\ cacheStats.hitRate.den # 0
       /\ IF lookups > 0
          THEN cacheStats.hitRate.num * lookups = cacheStats.hits * cacheStats.hitRate.den
          ELSE cacheStats.hitRate.num = 0

\* at most one batch of the bulk processor is in flight
SingleFlight == batchesInFlight <= 1

\* C19: at most one batch is in flight, and a location that arrives during
\* a running batch is picked up by a later batch (unless the caller clears
\* the queue first)
C19_LateArrivalPickedUp ==
    /\ []SingleFlight
    /\ (lateArrival.state = "queued") ~> (lateArrival.state \in {"pickedUp", "cleared"})

\* C20: no accepted location is dropped silently: each one is still queued
\* or in flight, was processed, was reported by locationFailed, or was
\* discarded by the caller's clearQueue
C20_NoSilentDrop ==
    bulkLedger.accepted = bulkLedger.processed + bulkLedger.reported + bulkLedger.cleared
                          + Len(bulkQueue) + Len(bulkInFlight)

\* a step in which an item of the running batch settles without success
ItemFailsStep ==
    /\ bulkProcessing
    /\ Len(bulkInFlight') = Len(bulkInFlight) - 1
    /\ bulkLedger'.processed = bulkLedger.processed

\* C21: an item whose processing fails is put back at the head of the queue
\* with its retry count increased, at most maxRetries times, or else is
\* reported by exactly one locationFailed
C21_FailedItemRetriedOrReported ==
    [][ItemFailsStep =>
          \/ /\ Len(bulkQueue') = Len(bulkQueue) + 1
             /\ Head(bulkQueue') \in 1..bulkMaxRetries
             /\ bulkLedger'.reported = bulkLedger.reported
          \/ /\ bulkQueue' = bulkQueue
             /\ bulkLedger'.reported = bulkLedger.reported + 1]_vars

\* C22: every submitted request is settled exactly once; so a request that
\* is not settled yet is still held by the governor, in the queue, in flight
\* or in a retry timer, from where it will be resolved or rejected
C22_PendingRequestIsHeld ==
    \A i \in ReqIds : lbSettled[i] = "pending" => i \in HeldRequests

\* C23: an entry taken from the delivery queue leads to a POST attempt to
\* each of its webhooks: when the batch is over, every webhook of every entry
\* has had a delivery that ended delivered or failed
C23_EveryEntryAttempted ==
    [][(whBatch # <<>> /\ whBatch' = <<>>) =>
          \A i \in 1..Len(whBatch) : \A c \in whBatch[i].webhooks :
              whBatch[i].posts[c.id].pc \in {"delivered", "failed"}]_vars

\* C24: an update accepted into the batch of the indexer stays pending until
\* it is written: a step that takes the pending updates out of the batch
\* leaves the newest of them in the index
C24_FlushKeepsUnwrittenUpdates ==
    [][(pendingLocations # <<>> /\ pendingLocations' = <<>>) =>
          indexLocation' = <<lastSubmitted'>>]_vars

\* C25: once deleteZone(id) has completed, getZone(id) returns no zone,
\* neither from the index nor from the cache
C25_DeletedZoneStaysGone ==
    \A id \in zonesDeleted : getZone(id) = NoZone

\* C26: an operation that fails with a validation error is not retried:
\* executeWrite does not wait for another attempt after such an error
C26_ValidationErrorNotRetried ==
    wrPc = "delay" => wrOpError \notin {"LocationValidationError"}

\* while no batch is in flight the queue holds less than a full batch
SizeTriggerStartsBatch == ~bulkProcessing => Len(bulkQueue) < bulkBatchSize

\* C27: while no batch is in flight, a batch starts as soon as the queue
\* holds batchSize items, and no item waits in the queue for more than
\* maxWaitTime
C27_BatchStartsBySizeOrTime ==
    /\ SizeTriggerStartsBatch
    /\ idleWait <= bulkMaxWait

\* the delivery of entry i to webhook w has ended in failure
DeliveryFailed(i, w) == i <= Len(whBatch) /\ whBatch[i].posts[w].pc = "failed"

C29_DeliveredEventIsFlagged ==
    /\ whDelivered.event # NoEvent => webhookDelivered[whDelivered.event.id] = "true"
    /\ \A event \in WebhookEvents :
          webhookDelivered[event.id] = "true" => whStats.webhooksDelivered > 0

\* this step starts a POST to webhook w
PostStarts(w) ==
    \E i \in 1..Len(whBatch) :
        /\ Len(whBatch') = Len(whBatch)
        /\ whBatch[i].posts[w].pc # "post"
        /\ whBatch'[i].posts[w].pc = "post"

\* C30: once a webhook has been removed or disabled no further delivery is
\* made to it: a POST is started only to a webhook that is registered and
\* enabled
C30_NoDeliveryAfterRemoval ==
    [][\A w \in WebhookIds :
          PostStarts(w) => (webhooks[w] # NoWebhook /\ webhooks[w].enabled)]_vars

\* C31: a delivery to a webhook that has no secret carries no signature, and
\* no delivery carries a signature computed with another webhook's secret
C31_NoForeignSignature ==
    whDelivered # NoDelivery =>
        /\ whDelivered.secret = "" => whDelivered.signature = NoSignature
        /\ whDelivered.signature # NoSignature => whDelivered.signature[1] = whDelivered.secret

\* handle h is connected
HandleConnected(h) ==
    \/ h = PrimaryHandle /\ primaryConnected
    \/ \E i \in Replicas : h = ReplicaHandle(i) /\ replicaConnected[i]

\* C32: getReadConnection never returns a handle that is not connected, it
\* throws exactly when no handle is connected, and with the primary down it
\* returns a connected replica when there is one
C32_ReadHandleIsConnected ==
    [][readCalls' # readCalls =>
          /\ readHandle' # NoHandle => HandleConnected(readHandle')
          /\ readHandle' = NoHandle <=>
                ~(primaryConnected \/ \E i \in Replicas : replicaConnected[i])
          /\ (~primaryConnected /\ \E i \in Replicas : replicaConnected[i]) =>
                \E i \in Replicas : readHandle' = ReplicaHandle(i) /\ replicaConnected[i]]_vars

C32_Witness ==
    /\ readCalls > 1
    /\ ~primaryConnected
    /\ \E i \in Replicas : readHandle = ReplicaHandle(i) /\ replicaConnected[i]

\* C33: executeWrite surfaces the error of a failing operation after three
\* retries, that is after the waits of 1 s, 2 s and 3 s: a call that has
\* failed has waited three times, each wait followed by an attempt with a
\* handle acquired anew
C33_ThreeRetriesBeforeError ==
    wrPc = "failed" => wrAttempt = MAX_CONNECTION_ATTEMPTS

\* C34: each time a connection is opened or reopened, the delays after failed
\* attempts start at 1 s and double, at most 5 attempts are made, and the
\* error is surfaced when they are used up
C34_BackoffStartsAnewAndSurfaces ==
    \A th \in ConnThreads :
        LET thread == connThreads[th]
        IN /\ thread.waits = [k \in 1..Len(thread.waits) |-> initialRetryDelay * 2^(k - 1)]
           /\ thread.pings <= connMaxRetries
           /\ thread.outcome # "logged"

\* C35: a connection that was marked down and has since answered the health
\* probe is back in the rotation: with no call of connect still under way,
\* it is connected
C35_ProbeSuccessRestores ==
    (lastProbe = "ok" /\ \A th \in ConnThreads : ~ThreadActive(th)) => isConnected

\* C36: at most one reconnect attempt of a connection is in progress at a time
C36_OneReconnectAtATime ==
    Cardinality({ th \in ConnThreads : ThreadActive(th) }) <= 1

\* request a is served before request b: higher priority, or the same
\* priority and submitted earlier (ids are given in the order of submission)
ServedBefore(a, b) ==
    \/ a.priority > b.priority
    \/ a.priority = b.priority /\ a.id < b.id

C38_FailedRequestRetriedOrRejected ==
    [][\A req \in lbRunning \ lbRunning' :
          \/ lbSettled'[req.id] = "resolved"
          \/ /\ req.retryCount < retryAttempts
             /\ [req EXCEPT !.retryCount = @ + 1] \in lbBackoff'
          \/ /\ req.retryCount >= retryAttempts
             /\ lbSettled'[req.id] = "rejected"]_vars

C40_NothingRunsAfterShutdown ==
    [][lbShutdown =>
          /\ Len(requestQueue') >= Len(requestQueue)
          /\ lbStarts' = lbStarts]_vars

====
